------------------------------ MODULE Cascade ------------------------------
(***************************************************************************)
(* The two cascades of the engine: lock_with_dependents                    *)
(* (engine/nasty-engine/src/fs_lock.rs) stops the apps and VMs of an       *)
(* encrypted filesystem, unmounts it and drops its key;                    *)
(* rollback_with_dependents (subvol_rollback.rs) stops the apps, VMs and   *)
(* shares of a subvolume, swaps it for a snapshot and resumes them.  Both  *)
(* call AppsService, VmService, the share services, SubvolumeService and   *)
(* FilesystemService, whose parts they use are modelled here: one          *)
(* encrypted filesystem with one subvolume that all of them depend on.     *)
(*                                                                         *)
(* Requests overlap, and may be dropped with their connection at any       *)
(* await.  Every call may fail.  A guest may ignore the power button.  A   *)
(* QMP monitor may stop answering for a while: the ping behind list, stop, *)
(* kill and start then times out and the VM counts as not running, and a   *)
(* command already sent waits for its answer without a deadline.  Lists    *)
(* are walked in any order.                                                *)
(***************************************************************************)
EXTENDS Naturals, FiniteSets

CONSTANTS
    Task,       \* concurrent requests
    App,        \* apps on the subvolume
    Vm,         \* names of the VMs with a disk on it
    Smb, Nfs,   \* shares of it
    NoVm,       \* no VM is being handled
    MaxEvents   \* bound on requests, operator calls and hanging monitors

\* A VM's id is a fresh UUID, never its name.
Id(v) == <<v>>

VmId == {Id(v) : v \in Vm}

Share == Smb \cup Nfs

ASSUME CascadeAssumption ==
    /\ MaxEvents \in Nat
    /\ Smb \cap Nfs = {} /\ App \cap Share = {} /\ VmId \cap (App \cup Share) = {}
    /\ NoVm \notin Vm \cup VmId

VARIABLES
    app,        \* apps that run
    vm,         \* the QEMU process of each VM
    share,      \* each share: enabled in its state file, exported by the daemon
    live,       \* what the subvolume's path holds
    safety,     \* contents kept in safety snapshots
    guard,      \* the holder of lock_destination, a set of at most one task
    fs,         \* the filesystem: mounted, and its key in the keyring
    task,       \* the requests
    events,     \* requests, operator calls and hanging monitors so far
    want,       \* apps, VMs and shares the operator last left running
    blame       \* what has happened that can leave something running ("overlap",
                \* "short"), stopped ("left"), or running unseen ("mute")

services == <<app, vm, share>>
storage == <<live, safety, fs>>
vars == <<services, storage, guard, task, events, want, blame>>

-----------------------------------------------------------------------------
\* A guest that was asked to power off; the same two with a monitor that accepts
\* connections and does not answer; a process that was killed and is not gone yet;
\* one that no kill has reached and whose monitor's socket file was removed.
VmState == {"off", "on", "asked", "stuck", "deaf", "dying", "lost"}

Answers == {"on", "asked"}

Mute == {"stuck", "deaf"}

Content == {"orig", "target"}

Kinds == {"lock", "rollback"}

Pcs == {"deps", "apps", "vms", "press", "wait", "kill", "quit", "smb", "nfs", "guard", "check",
        "safety", "delete", "recreate", "renfs", "resmb", "revms", "greet", "reapps", "unmount",
        "unlink", "done"}

Outcomes == {"ok", "refused", "app", "vetoed", "swap", "busy"}

\* A request: what is left of the loop it is in (todo), the VM it is handling
\* (cur), the apps, VM ids and shares it will resume (apps, ids, smb, nfs).
Idle == [kind |-> "none", pc |-> "idle", todo |-> {}, cur |-> NoVm, apps |-> {},
         ids |-> {}, smb |-> {}, nfs |-> {}, out |-> "ok"]

Record == [kind : Kinds \cup {"none"}, pc : Pcs \cup {"idle"},
           todo : SUBSET (App \cup Vm \cup VmId \cup Share),
           cur : Vm \cup VmId \cup {NoVm}, apps : SUBSET App,
           ids : SUBSET (Vm \cup VmId), smb : SUBSET Smb, nfs : SUBSET Nfs,
           out : Outcomes]

\* The lock's loop holds names of VMs, the rollback's their ids.
TypeOK ==
    /\ app \subseteq App
    /\ vm \in [VmId -> VmState]
    /\ share \in [Share -> [on : BOOLEAN, live : BOOLEAN]]
    /\ live \in Content \cup {"gone"} /\ safety \subseteq Content
    /\ guard \subseteq Task /\ \A t, o \in guard : t = o
    /\ fs \in [mounted : BOOLEAN, key : BOOLEAN]
    /\ task \in [Task -> Record]
    /\ \A t \in Task :
          /\ task[t].pc = "idle" \/ task[t].kind = "none" => task[t] = Idle
          /\ task[t].ids \subseteq IF task[t].kind = "lock" THEN Vm ELSE VmId
          /\ task[t].cur \in task[t].ids \cup {NoVm}
    /\ events \in 0 .. MaxEvents
    /\ want \subseteq App \cup VmId \cup Share
    /\ blame \subseteq {"overlap", "short", "left", "mute"}

-----------------------------------------------------------------------------
(* The services the cascades call.                                           *)

Step(t, r) == task' = [task EXCEPT ![t] = r]

Goto(t, pc) == Step(t, [task[t] EXCEPT !.pc = pc])

Blame(b) == blame' = blame \cup b

\* The socket file exists and ping reads the greeting within two seconds.
is_running(i) == vm[i] \in Answers

\* A process that runs and does not show it.
Unseen(i) == vm[i] \in Mute \cup {"lost"}

\* stop and kill take an id: no other argument has a state file.
Found(i) == i \in VmId

Others(t) == {o \in Task \ {t} : task[o] # Idle /\ task[o].pc # "done"}

Init ==
    /\ app = App
    /\ vm \in [VmId -> {"off", "on"}]
    /\ \E on \in SUBSET Share : share = [s \in Share |-> [on |-> s \in on, live |-> s \in on]]
    /\ want = app \cup {i \in VmId : vm[i] = "on"} \cup {s \in Share : share[s].on}
    /\ live = "orig" /\ safety = {}
    /\ guard = {}
    /\ fs = [mounted |-> TRUE, key |-> TRUE]
    /\ task = [t \in Task |-> Idle]
    /\ events = 0 /\ blame = {}

-----------------------------------------------------------------------------
(* Quiescing: common to both cascades.                                       *)

Request(t, kind) ==
    /\ task[t] = Idle /\ events < MaxEvents
    /\ events' = events + 1
    /\ Step(t, [Idle EXCEPT !.kind = kind, !.pc = "deps"])
    /\ Blame(IF Others(t) = {} THEN {} ELSE {"overlap"})
    /\ UNCHANGED <<services, storage, guard, want>>

\* find_dependents: any part that cannot be read refuses the lock.
LockDeps(t) ==
    LET r == task[t]
    IN /\ r.kind = "lock" /\ r.pc = "deps"
       /\ \/ Step(t, [r EXCEPT !.pc = "apps", !.apps = App, !.todo = App, !.ids = Vm])
          \/ Step(t, [r EXCEPT !.pc = "done", !.out = "refused"])
       /\ UNCHANGED <<services, storage, guard, events, want, blame>>

\* resolve_vm_ids.
resolve_vm_ids(vms) == {Id(v) : v \in vms}

\* find_all_subvolume_dependents: what cannot be read counts as absent.
RollbackDeps(t) ==
    LET r == task[t]
    IN /\ r.kind = "rollback" /\ r.pc = "deps"
       /\ \/ /\ live # "gone" /\ fs.mounted
             /\ \E apps \in {App, {}}, vms \in {Vm, {}} :
                   /\ Step(t, [r EXCEPT !.pc = "apps", !.apps = apps, !.todo = apps,
                                        !.ids = resolve_vm_ids(vms)])
                   /\ Blame(IF apps = App /\ vms = Vm THEN {} ELSE {"short"})
          \/ /\ Step(t, [r EXCEPT !.pc = "done", !.out = "refused"])
             /\ UNCHANGED blame
       /\ UNCHANGED <<services, storage, guard, events, want>>

\* AppsService::stop, also of an app that is stopped already.  A lock means it to
\* stay stopped.
StopApp(t, a) ==
    LET r == task[t]
    IN /\ r.pc = "apps" /\ a \in r.todo
       /\ app' = app \ {a}
       /\ Step(t, [r EXCEPT !.todo = @ \ {a}])
       /\ want' = IF r.kind = "lock" THEN want \ {a} ELSE want
       /\ UNCHANGED <<vm, share, storage, guard, events, blame>>

\* The first app that does not stop ends the request; those stopped before it
\* stay stopped.
StopAppFails(t) ==
    LET r == task[t]
    IN /\ r.pc = "apps" /\ r.todo # {}
       /\ Step(t, [r EXCEPT !.pc = "done", !.out = "app", !.todo = {}])
       /\ Blame(IF (r.apps \ r.todo) \cap want = {} THEN {} ELSE {"left"})
       /\ UNCHANGED <<services, storage, guard, events, want>>

AppsStopped(t) ==
    LET r == task[t]
    IN /\ r.pc = "apps" /\ r.todo = {}
       /\ Step(t, [r EXCEPT !.pc = "vms", !.todo = r.ids])
       /\ UNCHANGED <<services, storage, guard, events, want, blame>>

\* The guest behind a member of the VM loop: the lock's loop holds names.
Guest(t, v) == IF task[t].kind = "lock" THEN Id(v) ELSE v

\* A VM that does not answer a ping is passed over.  For one that does, stop asks
\* again, and presses the power button unless that fails.
StopVm(t, v) ==
    LET r == task[t]
        i == Guest(t, v)
        Handling(pc) == Step(t, [r EXCEPT !.pc = pc, !.cur = v, !.todo = @ \ {v}])
    IN /\ r.pc = "vms" /\ v \in r.todo
       /\ \/ /\ ~is_running(i)
             /\ Step(t, [r EXCEPT !.todo = @ \ {v}])
             /\ Blame(IF Unseen(i) THEN {"mute"} ELSE {})
          \/ is_running(i) /\ Found(v) /\ Handling("press") /\ UNCHANGED blame
          \/ is_running(i) /\ Handling("kill") /\ UNCHANGED blame
       /\ UNCHANGED <<services, storage, guard, events, want>>

\* execute(system_powerdown) has no deadline: it ends with an answer or with the
\* process.  A failing stop leads to the kill.
PressButton(t) ==
    LET r == task[t]
    IN /\ r.pc = "press" /\ vm[r.cur] \notin Mute
       /\ \/ /\ is_running(r.cur)
             /\ vm' = [vm EXCEPT ![r.cur] = "asked"]
             /\ Goto(t, "wait")
             /\ want' = IF r.kind = "lock" THEN want \ {r.cur} ELSE want
          \/ Goto(t, "kill") /\ UNCHANGED <<vm, want>>
       /\ UNCHANGED <<app, share, storage, guard, events, blame>>

VmWait_NoKill(t) ==
    LET r == task[t]
    IN /\ r.pc = "wait"
       /\ Step(t, [r EXCEPT !.pc = "vms", !.cur = NoVm])
       /\ UNCHANGED <<services, storage, guard, events, want, blame>>

VmWait_NoDeadline(t) ==
    LET r == task[t]
    IN /\ r.pc = "wait" /\ ~is_running(Guest(t, r.cur))
       /\ Step(t, [r EXCEPT !.pc = "vms", !.cur = NoVm])
       /\ UNCHANGED <<services, storage, guard, events, want, blame>>

\* wait_until_stopped: no ping is answered any more, or VM_SHUTDOWN_TIMEOUT has
\* passed.
VmWait(t) ==
    LET r == task[t]
        i == Guest(t, r.cur)
    IN /\ r.pc = "wait"
       /\ \/ /\ ~is_running(i)
             /\ Step(t, [r EXCEPT !.pc = "vms", !.cur = NoVm])
             /\ Blame(IF Unseen(i) THEN {"mute"} ELSE {})
          \/ is_running(i) /\ Goto(t, "kill") /\ UNCHANGED blame
       /\ UNCHANGED <<services, storage, guard, events, want>>

\* kill sends quit to a VM that answers its ping.
KillVm(t) ==
    /\ task[t].pc = "kill" /\ Found(task[t].cur) /\ is_running(task[t].cur)
    /\ Goto(t, "quit")
    /\ UNCHANGED <<services, storage, guard, events, want, blame>>

\* execute(quit) has no deadline either.  kill -9 follows; kill returns without
\* waiting for the process to go, and whether or not either worked.
QuitVm(t) ==
    LET r == task[t]
    IN /\ r.pc = "quit" /\ vm[r.cur] \notin Mute
       /\ \/ /\ is_running(r.cur)
             /\ vm' = [vm EXCEPT ![r.cur] = "dying"] /\ UNCHANGED blame
          \/ /\ is_running(r.cur)
             /\ vm' = [vm EXCEPT ![r.cur] = "lost"] /\ Blame({"mute"})
          \/ /\ ~is_running(r.cur) /\ UNCHANGED vm
             /\ Blame(IF Unseen(r.cur) THEN {"mute"} ELSE {})
       /\ Step(t, [r EXCEPT !.pc = "vms", !.cur = NoVm])
       /\ want' = IF r.kind = "lock" THEN want \ {r.cur} ELSE want
       /\ UNCHANGED <<app, share, storage, guard, events>>

\* kill fails when there is no such VM, or it does not answer.  The lock gives up;
\* the rollback first resumes its apps, not the VMs it has stopped.
KillVmFails(t) ==
    LET r == task[t]
    IN /\ r.pc = "kill" /\ (Found(r.cur) => ~is_running(r.cur))
       /\ IF r.kind = "lock"
          THEN Step(t, [r EXCEPT !.pc = "done", !.out = "vetoed", !.todo = {}, !.cur = NoVm])
          ELSE Step(t, [r EXCEPT !.pc = "reapps", !.out = "vetoed", !.todo = r.apps,
                                 !.cur = NoVm])
       /\ Blame(IF r.kind = "lock" \/ (r.ids \ r.todo) \cap want = {} THEN {} ELSE {"left"})
       /\ UNCHANGED <<services, storage, guard, events, want>>

VmsStopped(t) ==
    LET r == task[t]
    IN /\ r.pc = "vms" /\ r.todo = {}
       /\ IF r.kind = "lock" THEN Goto(t, "unmount")
          ELSE Step(t, [r EXCEPT !.pc = "smb", !.todo = {s \in Smb : share[s].on}])
       /\ UNCHANGED <<services, storage, guard, events, want, blame>>

-----------------------------------------------------------------------------
(* Shares.                                                                   *)

Toggling == {"smb", "nfs"}

\* update(enabled: false) saves, then reloads the daemon; only a share whose
\* update succeeded is remembered.
DisableShare(t, s) ==
    LET r == task[t]
        next == [r EXCEPT !.todo = @ \ {s}]
    IN /\ r.pc \in Toggling /\ s \in r.todo
       /\ \/ /\ share' = [share EXCEPT ![s] = [on |-> FALSE, live |-> FALSE]]
             /\ Step(t, IF r.pc = "smb" THEN [next EXCEPT !.smb = @ \cup {s}]
                                        ELSE [next EXCEPT !.nfs = @ \cup {s}])
             /\ UNCHANGED blame
          \/ /\ share' \in {share, [share EXCEPT ![s].on = FALSE]}
             /\ Step(t, next)
             /\ Blame({"short", "left"})
       /\ UNCHANGED <<app, vm, storage, guard, events, want>>

SharesDisabled(t) ==
    LET r == task[t]
    IN /\ r.pc \in Toggling /\ r.todo = {}
       /\ IF r.pc = "smb"
          THEN Step(t, [r EXCEPT !.pc = "nfs", !.todo = {s \in Nfs : share[s].on}])
          ELSE Goto(t, "guard")
       /\ UNCHANGED <<services, storage, guard, events, want, blame>>

EnableShare(t, s) ==
    LET r == task[t]
    IN /\ r.pc \in {"renfs", "resmb"} /\ s \in r.todo
       /\ Step(t, [r EXCEPT !.todo = @ \ {s}])
       /\ \/ /\ share' = [share EXCEPT ![s] = [on |-> TRUE, live |-> TRUE]]
             /\ UNCHANGED blame
          \/ /\ share' \in {share, [share EXCEPT ![s].on = TRUE]}
             /\ Blame({"short", "left"})
       /\ UNCHANGED <<app, vm, storage, guard, events, want>>

-----------------------------------------------------------------------------
(* SubvolumeService::rollback.                                               *)

AcquireGuard(t) ==
    /\ task[t].pc = "guard" /\ guard = {}
    /\ guard' = {t}
    /\ Goto(t, "check")
    /\ UNCHANGED <<services, storage, events, want, blame>>

\* The swap ends, with an error or not, and the resume begins.
Resume_OnSuccess(t, out) ==
    /\ IF out = "ok" THEN Step(t, [task[t] EXCEPT !.pc = "renfs", !.out = out,
                                                  !.todo = task[t].nfs])
       ELSE Step(t, [task[t] EXCEPT !.pc = "done", !.out = out])
    /\ guard' = guard \ {t}

Resume(t, out) ==
    /\ Step(t, [task[t] EXCEPT !.pc = "renfs", !.out = out, !.todo = task[t].nfs])
    /\ guard' = guard \ {t}

\* The subvolume and the snapshot exist, the caller may, nothing is nested.
SwapCheck(t) ==
    /\ task[t].pc = "check"
    /\ \/ live # "gone" /\ fs.mounted /\ Goto(t, "safety") /\ UNCHANGED guard
       \/ Resume(t, "swap")
    /\ UNCHANGED <<services, storage, events, want, blame>>

SafetySnapshot_BestEffort(t) ==
    /\ task[t].pc = "safety"
    /\ live # "gone" /\ fs.mounted
    /\ safety' \in {safety, safety \cup {live}}
    /\ Goto(t, "delete") /\ UNCHANGED guard
    /\ UNCHANGED <<services, live, fs, events, want, blame>>

SafetySnapshot(t) ==
    /\ task[t].pc = "safety"
    /\ \/ /\ live # "gone" /\ fs.mounted
          /\ safety' = safety \cup {live}
          /\ Goto(t, "delete") /\ UNCHANGED guard
       \/ Resume(t, "swap") /\ UNCHANGED safety
    /\ UNCHANGED <<services, live, fs, events, want, blame>>

DeleteLive(t) ==
    /\ task[t].pc = "delete"
    /\ \/ /\ fs.mounted /\ live' = "gone"
          /\ Goto(t, "recreate") /\ UNCHANGED guard
       \/ Resume(t, "swap") /\ UNCHANGED live
    /\ UNCHANGED <<services, safety, fs, events, want, blame>>

\* materialize_subvol_from_snapshot; the owner's xattr may fail after it.
Recreate(t) ==
    /\ task[t].pc = "recreate"
    /\ \/ /\ fs.mounted /\ live' = "target"
          /\ \E out \in {"ok", "swap"} : Resume(t, out)
       \/ Resume(t, "swap") /\ UNCHANGED live
    /\ UNCHANGED <<services, safety, fs, events, want, blame>>

-----------------------------------------------------------------------------
(* Resuming.                                                                 *)

\* One loop of the resume is done, the next begins.
ResumeNext(t) ==
    LET r == task[t]
    IN /\ r.todo = {}
       /\ \/ r.pc = "renfs" /\ Step(t, [r EXCEPT !.pc = "resmb", !.todo = r.smb])
          \/ r.pc = "resmb" /\ Step(t, [r EXCEPT !.pc = "revms", !.todo = r.ids])
          \/ r.pc = "revms" /\ Step(t, [r EXCEPT !.pc = "reapps", !.todo = r.apps])
          \/ r.pc = "reapps" /\ Goto(t, "done")
       /\ UNCHANGED <<services, storage, guard, events, want, blame>>

\* VmService::start: refused while the VM answers; QEMU fails while an old process
\* holds the disk; any check may fail.
StartVm(t, i) ==
    LET r == task[t]
    IN /\ r.pc = "revms" /\ i \in r.todo
       /\ \/ /\ vm[i] = "off" /\ live # "gone" /\ fs.mounted
             /\ vm' = [vm EXCEPT ![i] = "on"] /\ UNCHANGED blame
             /\ Step(t, [r EXCEPT !.pc = "greet", !.cur = i, !.todo = @ \ {i}])
          \/ /\ is_running(i) /\ UNCHANGED <<vm, blame>>
             /\ Step(t, [r EXCEPT !.todo = @ \ {i}])
          \/ /\ ~is_running(i) /\ UNCHANGED vm
             /\ Step(t, [r EXCEPT !.todo = @ \ {i}])
             /\ Blame(IF i \in want /\ ~Unseen(i) THEN {"left"} ELSE {})
       /\ UNCHANGED <<app, share, storage, guard, events, want>>

\* negotiate with the new process, without a deadline; an error is logged.
Greet(t) ==
    LET r == task[t]
    IN /\ r.pc = "greet" /\ vm[r.cur] \notin Mute
       /\ Step(t, [r EXCEPT !.pc = "revms", !.cur = NoVm])
       /\ UNCHANGED <<services, storage, guard, events, want, blame>>

\* AppsService::start.
StartApp(t, a) ==
    LET r == task[t]
    IN /\ r.pc = "reapps" /\ a \in r.todo
       /\ Step(t, [r EXCEPT !.todo = @ \ {a}])
       /\ \/ app' = app \cup {a} /\ UNCHANGED blame
          \/ /\ UNCHANGED app
             /\ Blame(IF a \in want /\ a \notin app THEN {"left"} ELSE {})
       /\ UNCHANGED <<vm, share, storage, guard, events, want>>

-----------------------------------------------------------------------------
(* FilesystemService::lock.                                                  *)

Busy == app # {} \/ \E i \in VmId : vm[i] # "off"

\* umount fails while a process has the filesystem open.
Unmount(t) ==
    LET r == task[t]
    IN /\ r.pc = "unmount"
       /\ \/ /\ ~fs.mounted \/ ~Busy
             /\ fs' = [fs EXCEPT !.mounted = FALSE]
             /\ Goto(t, "unlink")
          \/ Step(t, [r EXCEPT !.pc = "done", !.out = "busy"]) /\ UNCHANGED fs
       /\ UNCHANGED <<services, live, safety, guard, events, want, blame>>

\* keyctl unlink.
UnlinkKey(t) ==
    LET r == task[t]
    IN /\ r.pc = "unlink"
       /\ \/ fs' = [fs EXCEPT !.key = FALSE] /\ Step(t, [r EXCEPT !.pc = "done"])
          \/ Step(t, [r EXCEPT !.pc = "done", !.out = "busy"]) /\ UNCHANGED fs
       /\ UNCHANGED <<services, live, safety, guard, events, want, blame>>

-----------------------------------------------------------------------------
Reply(t) ==
    /\ task[t].pc = "done"
    /\ Step(t, Idle)
    /\ UNCHANGED <<services, storage, guard, events, want, blame>>

\* The connection closes, or the engine restarts: the request ends where it is.
Dropped(t) ==
    /\ task[t] # Idle /\ task[t].pc # "done"
    /\ Step(t, Idle)
    /\ guard' = guard \ {t}
    /\ Blame({"left"})
    /\ UNCHANGED <<services, storage, events, want>>

Event ==
    /\ events < MaxEvents /\ events' = events + 1
    /\ UNCHANGED <<share, storage, guard, task>>

Cascading == \E t \in Task : Others(t) # {} \/ task[t].pc \notin {"idle", "done"}

\* The operator starts and stops apps and VMs at any time.
OperatorApp(a) ==
    /\ Event
    /\ \/ app' = app \cup {a} /\ want' = want \cup {a} /\ fs.mounted
       \/ app' = app \ {a} /\ want' = want \ {a}
    /\ Blame(IF Cascading THEN {"overlap"} ELSE {})
    /\ UNCHANGED vm

OperatorVm(i) ==
    /\ Event
    /\ \/ /\ vm[i] = "off" /\ fs.mounted /\ live # "gone"
          /\ vm' = [vm EXCEPT ![i] = "on"] /\ want' = want \cup {i}
       \/ /\ is_running(i)
          /\ vm' = [vm EXCEPT ![i] = "asked"] /\ want' = want \ {i}
    /\ Blame(IF Cascading THEN {"overlap"} ELSE {})
    /\ UNCHANGED app

\* A monitor that is held up, by a stalled disk for one, and one that goes on.
MonitorHangs(i) ==
    /\ Event /\ is_running(i)
    /\ vm' = [vm EXCEPT ![i] = IF @ = "on" THEN "stuck" ELSE "deaf"]
    /\ UNCHANGED <<app, want, blame>>

MonitorRecovers(i) ==
    /\ vm[i] \in Mute
    /\ vm' = [vm EXCEPT ![i] = IF @ = "stuck" THEN "on" ELSE "asked"]
    /\ UNCHANGED <<app, share, storage, guard, task, events, want, blame>>

\* A guest obeys the power button, also an unseen one; a killed process goes.
GuestStops(i) ==
    /\ vm[i] \in {"asked", "deaf", "dying", "lost"}
    /\ vm' = [vm EXCEPT ![i] = "off"]
    /\ UNCHANGED <<app, share, storage, guard, task, events, want, blame>>

\* unlock and mount.
Reopen ==
    /\ ~fs.mounted /\ events < MaxEvents
    /\ events' = events + 1
    /\ fs' = [mounted |-> TRUE, key |-> TRUE]
    /\ UNCHANGED <<services, live, safety, guard, task, want, blame>>

Continue(t) ==
    \/ LockDeps(t) \/ RollbackDeps(t)
    \/ \E a \in App : StopApp(t, a) \/ StartApp(t, a)
    \/ StopAppFails(t) \/ AppsStopped(t)
    \/ \E v \in Vm \cup VmId : StopVm(t, v)
    \/ PressButton(t) \/ VmWait(t) \/ KillVm(t) \/ QuitVm(t) \/ KillVmFails(t)
    \/ VmsStopped(t)
    \/ \E s \in Share : DisableShare(t, s) \/ EnableShare(t, s)
    \/ SharesDisabled(t) \/ AcquireGuard(t) \/ SwapCheck(t) \/ SafetySnapshot(t)
    \/ DeleteLive(t) \/ Recreate(t) \/ ResumeNext(t)
    \/ \E i \in VmId : StartVm(t, i)
    \/ Greet(t)
    \/ Unmount(t) \/ UnlinkKey(t) \/ Reply(t)

Next ==
    \/ \E t \in Task : Continue(t) \/ Dropped(t) \/ \E k \in Kinds : Request(t, k)
    \/ \E a \in App : OperatorApp(a)
    \/ \E i \in VmId : OperatorVm(i) \/ MonitorHangs(i) \/ MonitorRecovers(i) \/ GuestStops(i)
    \/ Reopen

Spec == Init /\ [][Next]_vars

-----------------------------------------------------------------------------
(* Properties.                                                               *)

\* While the subvolume is swapped, no app of it runs, no VM of it runs or can
\* still be reached, and no share of it is exported, unless cascades or operator
\* calls overlapped, a list came back short, a share's daemon did not reload or a
\* VM that ran did not answer its monitor.  (subvol_rollback.rs: everything
\* currently using the subvolume must be quiesced first.)
SwapQuiet ==
    \A t \in Task :
        /\ task[t].pc \in {"delete", "recreate"}
        /\ blame \cap {"overlap", "short", "mute"} = {}
        => /\ app = {}
           /\ \A i \in VmId : vm[i] \in {"off", "dying"}
           /\ \A s \in Share : ~share[s].live

\* What the subvolume held before a rollback is in a safety snapshot from before
\* the delete on, whatever fails and wherever a request is dropped.
\* (subvolume.rs rollback: "Your data is intact in safety snapshot".)
UndoPoint == live # "orig" => "orig" \in safety

\* Once no cascade is under way, everything the operator left running runs again
\* and no disabled share has been enabled, however rollbacks and operator calls
\* overlapped and rollbacks failed, except after a request that was dropped or gave
\* up with something stopped, a start or a reload that failed, or a VM that ran and
\* did not answer when it was looked at.
\* (subvol_rollback.rs: the resume runs "regardless of swap outcome".)
AllBack ==
    /\ \A t \in Task : task[t] = Idle
    /\ blame \cap {"left", "mute"} = {}
    => /\ want \cap App \subseteq app
       /\ \A i \in VmId \cap want : vm[i] # "off"
       /\ {s \in Share : share[s].live} = want \cap Share

\* Where a cascade waits for an answer of a monitor that gives none: a command
\* that was sent, or a first greeting.  Nothing else of a cascade waits for one.
Unanswered(t) ==
    task[t].pc \in {"press", "quit", "greet"} /\ vm[task[t].cur] \in Mute

\* Where a cascade is, something is there for it to do: its loop is over or has a
\* member it can handle, and no monitor or rollback keeps it waiting.
CanGo(t) ==
    LET r == task[t]
        Loop(S) == r.todo = {} \/ r.todo \cap S # {}
    IN \/ r.pc = "deps" /\ r.kind \in Kinds
       \/ r.pc \in {"apps", "reapps"} /\ Loop(App)
       \/ r.pc = "vms" /\ Loop(Vm \cup VmId)
       \/ r.pc \in {"press", "quit", "greet"} /\ Found(r.cur) /\ ~Unanswered(t)
       \/ r.pc \in {"smb", "nfs", "renfs", "resmb"} /\ Loop(Share)
       \/ r.pc = "guard" /\ guard = {}
       \/ r.pc = "revms" /\ Loop(VmId)
       \/ r.pc \in {"wait", "kill", "check", "safety", "delete", "recreate", "unmount",
                   "unlink", "done"}

\* A cascade under way can go on, unless it waits for the answer of a mute monitor
\* or for another rollback of the subvolume, which can go on itself: under
\* lock_destination no monitor is asked.
Unwedged ==
    \A t \in Task :
        \/ task[t] = Idle
        \/ CanGo(t)
        \/ Unanswered(t)
        \/ task[t].pc = "guard" /\ \E o \in guard \ {t} : CanGo(o)

\* A cascade is never wedged, and there is a step wherever it can go on; every loop
\* only shrinks, so it ends.  A mute monitor holds up only a command sent after a
\* ping that was answered, never a list, a poll, a kill's or a start's check or a
\* rollback in its swap.  (qmp.rs: ping has a deadline, execute and negotiate have
\* none; subvolume.rs lock_destination is released however the swap ends.)
NeverWedged == Unwedged /\ \A t \in Task : CanGo(t) => ENABLED Continue(t)

\* A running VM never keeps a lock from going through: at worst it is killed.
\* (fs_lock.rs: "an unresponsive guest doesn't get a veto".)
LockNotVetoed == \A t \in Task : task[t].kind = "lock" => task[t].out # "vetoed"

=============================================================================
