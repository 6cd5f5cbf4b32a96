---------------------------- MODULE Cascade_proofs ----------------------------
(***************************************************************************)
(* The safety properties of Cascade, and that no cascade is wedged, for    *)
(* every value of its constants: any number of overlapping requests, apps, *)
(* VMs and shares of both kinds.                                           *)
(***************************************************************************)
EXTENDS Cascade, TLAPS

Active(t) == task[t].pc \notin {"idle", "done"}

\* Program points only a rollback reaches, from the one after its last guest on.
SwapPcs == {"guard", "check", "safety", "delete", "recreate"}
ShareDownPcs == {"smb", "nfs"} \cup SwapPcs
GuestPcs == {"press", "wait", "kill", "quit"}
VmPcs == {"vms"} \cup GuestPcs
ResumePcs == {"renfs", "resmb", "revms", "greet", "reapps"}

\* Each kind of request keeps to its own program points, a guest that is handled
\* is off the list, and one that is sent a command has a state file.
KindInv ==
    \A t \in Task :
        /\ task[t].pc \in ShareDownPcs \cup ResumePcs => task[t].kind = "rollback"
        /\ IF task[t].pc \in GuestPcs \cup {"greet"}
           THEN task[t].cur \in task[t].ids \ task[t].todo
           ELSE task[t].cur = NoVm
        /\ task[t].pc \in {"press", "quit", "greet"} => task[t].cur \in VmId

\* The lists of a loop hold what the loop is about.
ListInv ==
    \A t \in Task :
        /\ task[t].pc \in {"smb", "resmb"} => task[t].todo \subseteq Smb
        /\ task[t].pc \in {"nfs", "renfs"} => task[t].todo \subseteq Nfs
        /\ task[t].pc = "apps" => task[t].todo \subseteq task[t].apps
        /\ task[t].pc \in VmPcs \cup {"revms", "greet"} => task[t].todo \subseteq task[t].ids

\* From the delete on, the original contents are in a safety snapshot.
SafeInv ==
    /\ UndoPoint
    /\ \A t \in Task : task[t].pc \in {"delete", "recreate"} => "orig" \in safety

\* What a rollback has stopped so far, when nothing else interferes.
Down(i) == vm[i] \in {"off", "dying"}

Stopped(t) ==
    LET r == task[t]
    IN /\ r.pc = "apps" => app \subseteq r.todo /\ r.ids = VmId
       /\ r.pc \in VmPcs \cup ShareDownPcs => app = {}
       /\ r.pc = "vms" => \A i \in VmId \ r.todo : Down(i)
       /\ r.pc \in GuestPcs => \A i \in VmId \ (r.todo \cup {r.cur}) : Down(i)
       /\ r.pc \in ShareDownPcs => \A i \in VmId : Down(i)
       /\ r.pc = "smb" => \A s \in Smb \ r.todo : ~share[s].live
       /\ r.pc \in {"nfs"} \cup SwapPcs => \A s \in Smb : ~share[s].live
       /\ r.pc = "nfs" => \A s \in Nfs \ r.todo : ~share[s].live
       /\ r.pc \in SwapPcs => \A s \in Nfs : ~share[s].live

\* Without an overlap one cascade is under way.
OneInv == "overlap" \notin blame => \A t, o \in Task : Active(t) /\ Active(o) => t = o

\* Without a reload that failed, what is exported is enabled.
ExportInv == "short" \notin blame => \A s \in Share : share[s].live => share[s].on

\* Without either, and with every VM answering, a rollback is as far as it believes.
StoppedInv ==
    blame \cap {"overlap", "short", "mute"} = {} =>
        \A t \in Task : task[t].kind = "rollback" => Stopped(t)

QuietInv == OneInv /\ ExportInv /\ StoppedInv

\* A rollback that has yet to bring back an app, a VM or a share.
OwesApp(t, a) ==
    LET r == task[t]
    IN /\ r.kind = "rollback" /\ a \in r.apps
       /\ \/ r.pc = "apps" /\ a \notin r.todo
          \/ r.pc \in VmPcs \cup ShareDownPcs \cup {"renfs", "resmb", "revms", "greet"}
          \/ r.pc = "reapps" /\ a \in r.todo

OwesVm(t, i) ==
    LET r == task[t]
    IN /\ r.kind = "rollback" /\ i \in r.ids
       /\ \/ r.pc \in VmPcs /\ i \notin r.todo
          \/ r.pc \in ShareDownPcs \cup {"renfs", "resmb"}
          \/ r.pc \in {"revms", "greet"} /\ i \in r.todo

Asks(t, i) ==
    task[t].kind = "rollback" /\ task[t].pc \in GuestPcs /\ task[t].cur = i

OwesShare(t, s) ==
    LET r == task[t]
    IN \/ s \in r.smb \cup r.nfs /\ r.pc \in ShareDownPcs
       \/ s \in r.smb /\ r.pc = "renfs"
       \/ s \in r.smb \cap r.todo /\ r.pc = "resmb"
       \/ s \in r.nfs \cap r.todo /\ r.pc = "renfs"

\* The shares a rollback remembers and has on its list are ones the operator
\* wants, and so is every enabled one.
ShareInv ==
    /\ \A s \in Share : share[s].on => s \in want
    /\ \A t \in Task :
          /\ task[t].smb \cup task[t].nfs \subseteq want
          /\ task[t].pc \in {"smb", "nfs", "renfs", "resmb"} => task[t].todo \subseteq want

\* What the operator wants and does not run is owed by a rollback.
BackInv ==
    blame \cap {"left", "mute"} = {} =>
        /\ \A a \in App \cap want : a \in app \/ \E t \in Task : OwesApp(t, a)
        /\ \A i \in VmId \cap want :
              \/ vm[i] \in {"on", "stuck"}
              \/ vm[i] \in {"asked", "deaf"} /\ \E t \in Task : Asks(t, i)
              \/ vm[i] \in {"off", "dying"} /\ \E t \in Task : OwesVm(t, i)
        /\ \A s \in Share : share[s].live = share[s].on
        /\ \A s \in Share \cap want : share[s].on \/ \E t \in Task : OwesShare(t, s)

Same(m, r) ==
    /\ m.kind = r.kind /\ m.apps = r.apps /\ m.ids = r.ids
    /\ m.smb = r.smb /\ m.nfs = r.nfs

\* A step of a request that leaves the others alone.
Alone(t) ==
    /\ task' \in [Task -> Record]
    /\ \A o \in Task \ {t} : task'[o] = task[o]

\* It goes on with the lists it has.
Kept(t, pc, todo, cur) ==
    /\ Alone(t)
    /\ Same(task'[t], task[t])
    /\ task'[t].pc = pc /\ task'[t].todo = todo /\ task'[t].cur = cur

-----------------------------------------------------------------------------
USE CascadeAssumption
USE DEF Pcs, Kinds, Outcomes, GuestPcs

\* A request record has its type before and after a step.
LEMMA IdleFacts ==
  /\ Idle \in Record /\ Idle.pc = "idle" /\ Idle.kind = "none" /\ Idle.cur = NoVm
  /\ Idle.apps = {} /\ Idle.ids = {} /\ Idle.smb = {} /\ Idle.nfs = {} /\ Idle.todo = {}
  BY DEF Idle, Record

\* The record of a request under way.
LEMMA TaskFacts ==
  ASSUME TypeOK, NEW t \in Task
  PROVE  /\ task[t] \in Record
         /\ task[t].pc # "idle" => task[t].kind \in Kinds /\ task[t] # Idle
         /\ task[t].pc = "idle" => task[t] = Idle
<1>1. task[t] \in Record /\ (task[t].pc = "idle" \/ task[t].kind = "none" => task[t] = Idle)
  BY DEF TypeOK
<1> QED
  BY <1>1, IdleFacts DEF Record

\* Step sets one record.
LEMMA StepFacts ==
  ASSUME TypeOK, NEW t \in Task, NEW m \in Record, Step(t, m)
  PROVE  Alone(t) /\ task'[t] = m
  BY DEF TypeOK, Step, Alone

\* Step sets a record that keeps its lists.
LEMMA KeptFacts ==
  ASSUME TypeOK, NEW t \in Task, NEW m \in Record, Step(t, m), Same(m, task[t])
  PROVE  Kept(t, m.pc, m.todo, m.cur)
  BY StepFacts DEF Kept

\* Goto keeps the lists and sets the program counter.
LEMMA GotoFacts ==
  ASSUME TypeOK, NEW t \in Task, NEW pc \in Pcs, Goto(t, pc)
  PROVE  Kept(t, pc, task[t].todo, task[t].cur)
<1>0. task[t] \in Record
  BY TaskFacts
<1> DEFINE m == [task[t] EXCEPT !.pc = pc]
<1>1. m \in Record /\ Same(m, task[t]) /\ m.pc = pc /\ m.todo = task[t].todo /\ m.cur = task[t].cur
  BY <1>0 DEF Record, Same
<1>2. Step(t, m)
  BY DEF Goto
<1> HIDE DEF m
<1> QED
  BY <1>1, <1>2, KeptFacts

\* What is done with a member of a list takes it off the list.
LEMMA TakenFacts ==
  ASSUME TypeOK, NEW t \in Task, NEW x, Step(t, [task[t] EXCEPT !.todo = @ \ {x}])
  PROVE  Kept(t, task[t].pc, task[t].todo \ {x}, task[t].cur)
<1>0. task[t] \in Record
  BY TaskFacts
<1> DEFINE m == [task[t] EXCEPT !.todo = @ \ {x}]
<1>1. m \in Record /\ Same(m, task[t]) /\ m.pc = task[t].pc /\ m.todo = task[t].todo \ {x} /\ m.cur = task[t].cur
  BY <1>0 DEF Record, Same
<1>2. Step(t, m)
  OBVIOUS
<1> HIDE DEF m
<1> QED
  BY <1>1, <1>2, KeptFacts

-----------------------------------------------------------------------------
(* What each step does to its request.                                       *)

\* A lock lists every app and the names of the VMs, or is refused.
LEMMA LockDeps_Task ==
  ASSUME TypeOK, NEW t \in Task, LockDeps(t)
  PROVE  \/ /\ Alone(t) /\ task'[t].kind = "lock" /\ task'[t].pc = "apps" /\ task'[t].ids = Vm
            /\ task'[t].apps = App /\ task'[t].todo = App
            /\ task'[t].cur = task[t].cur
            /\ task'[t].smb = task[t].smb /\ task'[t].nfs = task[t].nfs
         \/ Kept(t, "done", task[t].todo, task[t].cur)
<1>0. task[t] \in Record
  BY TaskFacts
<1>1. CASE Step(t, [task[t] EXCEPT !.pc = "apps", !.apps = App, !.todo = App, !.ids = Vm])
  <2> DEFINE m == [task[t] EXCEPT !.pc = "apps", !.apps = App, !.todo = App, !.ids = Vm]
  <2>1. /\ m \in Record /\ m.kind = task[t].kind /\ m.pc = "apps" /\ m.ids = Vm
        /\ m.apps = App /\ m.todo = App
        /\ m.cur = task[t].cur /\ m.smb = task[t].smb /\ m.nfs = task[t].nfs
    BY <1>0 DEF Record
  <2> HIDE DEF m
  <2>2. Step(t, m)
    BY <1>1 DEF m
  <2> QED
    BY <2>1, <2>2, StepFacts DEF LockDeps
<1>2. CASE Step(t, [task[t] EXCEPT !.pc = "done", !.out = "refused"])
  <2> DEFINE m == [task[t] EXCEPT !.pc = "done", !.out = "refused"]
  <2>1. m \in Record /\ Same(m, task[t]) /\ m.pc = "done" /\ m.todo = task[t].todo /\ m.cur = task[t].cur
    BY <1>0 DEF Record, Same
  <2> HIDE DEF m
  <2>2. Step(t, m)
    BY <1>2 DEF m
  <2> QED
    BY <2>1, <2>2, KeptFacts
<1> QED
  BY <1>1, <1>2 DEF LockDeps

\* A rollback lists apps and VM ids, all of them unless a list comes back short.
LEMMA RollbackDeps_Task ==
  ASSUME TypeOK, NEW t \in Task, RollbackDeps(t)
  PROVE  \/ /\ Alone(t) /\ task'[t].kind = "rollback" /\ task'[t].pc = "apps"
            /\ task'[t].apps \subseteq App /\ task'[t].todo = task'[t].apps
            /\ task'[t].ids \subseteq VmId /\ task'[t].cur = task[t].cur
            /\ task'[t].smb = task[t].smb /\ task'[t].nfs = task[t].nfs
            /\ blame' \in {blame, blame \cup {"short"}}
            /\ "short" \notin blame' => task'[t].apps = App /\ task'[t].ids = VmId
         \/ Kept(t, "done", task[t].todo, task[t].cur) /\ UNCHANGED blame
<1>0. task[t] \in Record
  BY TaskFacts
<1>1. ASSUME NEW apps \in {App, {}}, NEW vms \in {Vm, {}},
             Step(t, [task[t] EXCEPT !.pc = "apps", !.apps = apps, !.todo = apps,
                                     !.ids = resolve_vm_ids(vms)]),
             Blame(IF apps = App /\ vms = Vm THEN {} ELSE {"short"})
      PROVE  /\ Alone(t) /\ task'[t].kind = task[t].kind /\ task'[t].pc = "apps"
             /\ task'[t].apps \subseteq App /\ task'[t].todo = task'[t].apps
             /\ task'[t].ids \subseteq VmId /\ task'[t].cur = task[t].cur
             /\ task'[t].smb = task[t].smb /\ task'[t].nfs = task[t].nfs
             /\ blame' \in {blame, blame \cup {"short"}}
             /\ "short" \notin blame' => task'[t].apps = App /\ task'[t].ids = VmId
  <2> DEFINE ids == resolve_vm_ids(vms)
             m == [task[t] EXCEPT !.pc = "apps", !.apps = apps, !.todo = apps, !.ids = ids]
  <2>1. ids \subseteq VmId /\ (vms = Vm => ids = VmId)
    BY DEF resolve_vm_ids, VmId
  <2> HIDE DEF ids
  <2>2. /\ m \in Record /\ m.kind = task[t].kind /\ m.pc = "apps" /\ m.ids = ids
        /\ m.apps = apps /\ m.todo = apps
        /\ m.cur = task[t].cur /\ m.smb = task[t].smb /\ m.nfs = task[t].nfs
    BY <1>0, <2>1 DEF Record
  <2> HIDE DEF m
  <2>3. Step(t, m)
    BY <1>1 DEF m, ids
  <2>4. Alone(t) /\ task'[t] = m
    BY <2>2, <2>3, StepFacts
  <2>5. /\ blame' \in {blame, blame \cup {"short"}}
        /\ "short" \notin blame' => apps = App /\ vms = Vm
    BY <1>1 DEF Blame
  <2> QED
    BY <2>1, <2>2, <2>4, <2>5
<1>2. CASE Step(t, [task[t] EXCEPT !.pc = "done", !.out = "refused"]) /\ UNCHANGED blame
  <2> DEFINE m == [task[t] EXCEPT !.pc = "done", !.out = "refused"]
  <2>1. m \in Record /\ Same(m, task[t]) /\ m.pc = "done" /\ m.todo = task[t].todo /\ m.cur = task[t].cur
    BY <1>0 DEF Record, Same
  <2> HIDE DEF m
  <2>2. Step(t, m)
    BY <1>2 DEF m
  <2> QED
    BY <1>2, <2>1, <2>2, KeptFacts
<1> QED
  BY <1>1, <1>2 DEF RollbackDeps

\* An app that was stopped leaves the list.
LEMMA StopApp_Task ==
  ASSUME TypeOK, NEW t \in Task, NEW a, StopApp(t, a)
  PROVE  Kept(t, "apps", task[t].todo \ {a}, task[t].cur)
<1>0. task[t] \in Record
  BY TaskFacts
<1> DEFINE m == [task[t] EXCEPT !.todo = @ \ {a}]
<1>1. m \in Record /\ Same(m, task[t]) /\ m.pc = task[t].pc /\ m.todo = task[t].todo \ {a} /\ m.cur = task[t].cur
  BY <1>0 DEF Record, Same
<1>2. Step(t, m)
  BY DEF StopApp
<1> HIDE DEF m
<1> QED
  BY <1>1, <1>2, KeptFacts DEF StopApp

\* A request ends at an app that does not stop.
LEMMA StopAppFails_Task ==
  ASSUME TypeOK, NEW t \in Task, StopAppFails(t)
  PROVE  Kept(t, "done", {}, task[t].cur)
<1>0. task[t] \in Record
  BY TaskFacts
<1> DEFINE m == [task[t] EXCEPT !.pc = "done", !.out = "app", !.todo = {}]
<1>1. m \in Record /\ Same(m, task[t]) /\ m.pc = "done" /\ m.todo = {} /\ m.cur = task[t].cur
  BY <1>0 DEF Record, Same
<1>2. Step(t, m)
  BY DEF StopAppFails
<1> HIDE DEF m
<1> QED
  BY <1>1, <1>2, KeptFacts

\* After the apps come the VMs.
LEMMA AppsStopped_Task ==
  ASSUME TypeOK, NEW t \in Task, AppsStopped(t)
  PROVE  Kept(t, "vms", task[t].ids, task[t].cur)
<1>0. task[t] \in Record
  BY TaskFacts
<1> DEFINE m == [task[t] EXCEPT !.pc = "vms", !.todo = task[t].ids]
<1>1. m \in Record /\ Same(m, task[t]) /\ m.pc = "vms" /\ m.todo = task[t].ids /\ m.cur = task[t].cur
  BY <1>0 DEF Record, Same
<1>2. Step(t, m)
  BY DEF AppsStopped
<1> HIDE DEF m
<1> QED
  BY <1>1, <1>2, KeptFacts

\* A VM that runs is handled, another is passed over.
LEMMA StopVm_Task ==
  ASSUME TypeOK, NEW t \in Task, NEW v \in Vm \cup VmId, StopVm(t, v)
  PROVE  \/ /\ ~ is_running(Guest(t, v)) /\ Kept(t, "vms", task[t].todo \ {v}, task[t].cur)
            /\ "mute" \notin blame' => ~ Unseen(Guest(t, v))
         \/ v \in VmId /\ Kept(t, "press", task[t].todo \ {v}, v)
         \/ Kept(t, "kill", task[t].todo \ {v}, v)
<1>0. task[t] \in Record
  BY TaskFacts
<1>1. ASSUME Step(t, [task[t] EXCEPT !.todo = @ \ {v}]), task[t].pc = "vms"
      PROVE  Kept(t, "vms", task[t].todo \ {v}, task[t].cur)
  <2> DEFINE m == [task[t] EXCEPT !.todo = @ \ {v}]
  <2>1. m \in Record /\ Same(m, task[t]) /\ m.pc = "vms" /\ m.todo = task[t].todo \ {v} /\ m.cur = task[t].cur
    BY <1>0, <1>1 DEF Record, Same
  <2> HIDE DEF m
  <2>2. Step(t, m)
    BY <1>1 DEF m
  <2> QED
    BY <2>1, <2>2, KeptFacts
<1>2. ASSUME NEW pc \in {"press", "kill"},
             Step(t, [task[t] EXCEPT !.pc = pc, !.cur = v, !.todo = @ \ {v}])
      PROVE  Kept(t, pc, task[t].todo \ {v}, v)
  <2> DEFINE m == [task[t] EXCEPT !.pc = pc, !.cur = v, !.todo = @ \ {v}]
  <2>1. m \in Record
    BY <1>0 DEF Record
  <2>2. Same(m, task[t]) /\ m.pc = pc /\ m.todo = task[t].todo \ {v} /\ m.cur = v
    BY <1>0 DEF Record, Same
  <2> HIDE DEF m
  <2>3. Step(t, m)
    BY <1>2 DEF m
  <2> QED
    BY <2>1, <2>2, <2>3, KeptFacts
<1> QED
  BY <1>1, <1>2 DEF StopVm, Found, Blame

\* The button is pressed, or the guest is to be killed.
LEMMA PressButton_Task ==
  ASSUME TypeOK, NEW t \in Task, PressButton(t)
  PROVE  \/ /\ Kept(t, "wait", task[t].todo, task[t].cur)
            /\ is_running(task[t].cur) /\ vm' = [vm EXCEPT ![task[t].cur] = "asked"]
            /\ want' = IF task[t].kind = "lock" THEN want \ {task[t].cur} ELSE want
         \/ Kept(t, "kill", task[t].todo, task[t].cur) /\ UNCHANGED <<vm, want>>
  BY GotoFacts DEF PressButton

\* The guest is gone, or is to be killed.
LEMMA VmWait_Task ==
  ASSUME TypeOK, NEW t \in Task, VmWait(t)
  PROVE  \/ /\ ~ is_running(Guest(t, task[t].cur))
            /\ "mute" \notin blame' => ~ Unseen(Guest(t, task[t].cur))
            /\ Kept(t, "vms", task[t].todo, NoVm)
         \/ Kept(t, "kill", task[t].todo, task[t].cur)
<1>0. task[t] \in Record
  BY TaskFacts
<1>1. ASSUME Step(t, [task[t] EXCEPT !.pc = "vms", !.cur = NoVm])
      PROVE  Kept(t, "vms", task[t].todo, NoVm)
  <2> DEFINE m == [task[t] EXCEPT !.pc = "vms", !.cur = NoVm]
  <2>1. m \in Record /\ Same(m, task[t]) /\ m.pc = "vms" /\ m.todo = task[t].todo /\ m.cur = NoVm
    BY <1>0 DEF Record, Same
  <2> HIDE DEF m
  <2>2. Step(t, m)
    BY <1>1 DEF m
  <2> QED
    BY <2>1, <2>2, KeptFacts
<1> QED
  BY <1>1, GotoFacts DEF VmWait, Blame

\* A guest that answers is sent its quit.
LEMMA KillVm_Task ==
  ASSUME TypeOK, NEW t \in Task, KillVm(t)
  PROVE  Kept(t, "quit", task[t].todo, task[t].cur) /\ task[t].cur \in VmId
  BY GotoFacts DEF KillVm, Found

\* A guest that was killed is done with.
LEMMA QuitVm_Task ==
  ASSUME TypeOK, NEW t \in Task, QuitVm(t)
  PROVE  Kept(t, "vms", task[t].todo, NoVm)
<1>0. task[t] \in Record
  BY TaskFacts
<1> DEFINE m == [task[t] EXCEPT !.pc = "vms", !.cur = NoVm]
<1>1. m \in Record /\ Same(m, task[t]) /\ m.pc = "vms" /\ m.todo = task[t].todo /\ m.cur = NoVm
  BY <1>0 DEF Record, Same
<1>2. Step(t, m)
  BY DEF QuitVm
<1> HIDE DEF m
<1> QED
  BY <1>1, <1>2, KeptFacts

\* A failing kill ends the lock, and sends the rollback back to its apps.
LEMMA KillVmFails_Task ==
  ASSUME TypeOK, NEW t \in Task, KillVmFails(t)
  PROVE  IF task[t].kind = "lock" THEN Kept(t, "done", {}, NoVm)
         ELSE Kept(t, "reapps", task[t].apps, NoVm)
<1>0. task[t] \in Record
  BY TaskFacts
<1>1. ASSUME Step(t, [task[t] EXCEPT !.pc = "done", !.out = "vetoed", !.todo = {}, !.cur = NoVm])
      PROVE  Kept(t, "done", {}, NoVm)
  <2> DEFINE m == [task[t] EXCEPT !.pc = "done", !.out = "vetoed", !.todo = {}, !.cur = NoVm]
  <2>1. m \in Record /\ Same(m, task[t]) /\ m.pc = "done" /\ m.todo = {} /\ m.cur = NoVm
    BY <1>0 DEF Record, Same
  <2> HIDE DEF m
  <2>2. Step(t, m)
    BY <1>1 DEF m
  <2> QED
    BY <2>1, <2>2, KeptFacts
<1>2. ASSUME Step(t, [task[t] EXCEPT !.pc = "reapps", !.out = "vetoed", !.todo = task[t].apps, !.cur = NoVm])
      PROVE  Kept(t, "reapps", task[t].apps, NoVm)
  <2> DEFINE m == [task[t] EXCEPT !.pc = "reapps", !.out = "vetoed", !.todo = task[t].apps, !.cur = NoVm]
  <2>1. m \in Record /\ Same(m, task[t]) /\ m.pc = "reapps" /\ m.todo = task[t].apps /\ m.cur = NoVm
    BY <1>0 DEF Record, Same
  <2> HIDE DEF m
  <2>2. Step(t, m)
    BY <1>2 DEF m
  <2> QED
    BY <2>1, <2>2, KeptFacts
<1> QED
  BY <1>1, <1>2 DEF KillVmFails

\* After the VMs, the lock unmounts and the rollback goes on to the enabled SMB shares.
LEMMA VmsStopped_Task ==
  ASSUME TypeOK, NEW t \in Task, VmsStopped(t)
  PROVE  IF task[t].kind = "lock" THEN Kept(t, "unmount", task[t].todo, task[t].cur)
         ELSE Kept(t, "smb", {s \in Smb : share[s].on}, task[t].cur)
<1>0. task[t] \in Record
  BY TaskFacts
<1>1. ASSUME Step(t, [task[t] EXCEPT !.pc = "smb", !.todo = {s \in Smb : share[s].on}])
      PROVE  Kept(t, "smb", {s \in Smb : share[s].on}, task[t].cur)
  <2> DEFINE m == [task[t] EXCEPT !.pc = "smb", !.todo = {s \in Smb : share[s].on}]
  <2>1. m \in Record /\ Same(m, task[t]) /\ m.pc = "smb" /\ m.todo = {s \in Smb : share[s].on} /\ m.cur = task[t].cur
    BY <1>0 DEF Record, Same, Share
  <2> HIDE DEF m
  <2>2. Step(t, m)
    BY <1>1 DEF m
  <2> QED
    BY <2>1, <2>2, KeptFacts
<1> QED
  BY <1>1, GotoFacts DEF VmsStopped

\* A share whose update succeeded is remembered.
LEMMA DisableShare_Task ==
  ASSUME TypeOK, ListInv, NEW t \in Task, NEW s, DisableShare(t, s)
  PROVE  \/ /\ Kept(t, task[t].pc, task[t].todo \ {s}, task[t].cur)
            /\ share' \in {share, [share EXCEPT ![s].on = FALSE]}
            /\ blame' = blame \cup {"short", "left"}
         \/ /\ Alone(t) /\ UNCHANGED blame
            /\ share' = [share EXCEPT ![s] = [on |-> FALSE, live |-> FALSE]]
            /\ task'[t].kind = task[t].kind /\ task'[t].pc = task[t].pc
            /\ task'[t].apps = task[t].apps /\ task'[t].ids = task[t].ids
            /\ task'[t].todo = task[t].todo \ {s} /\ task'[t].cur = task[t].cur
            /\ task'[t].smb = IF task[t].pc = "smb" THEN task[t].smb \cup {s} ELSE task[t].smb
            /\ task'[t].nfs = IF task[t].pc = "smb" THEN task[t].nfs ELSE task[t].nfs \cup {s}
<1>0. task[t] \in Record
  BY TaskFacts
<1> DEFINE next == [task[t] EXCEPT !.todo = @ \ {s}]
<1>1. /\ next \in Record /\ Same(next, task[t]) /\ next.pc = task[t].pc
      /\ next.todo = task[t].todo \ {s} /\ next.cur = task[t].cur
  BY <1>0 DEF Record, Same
<1> HIDE DEF next
<1>2. CASE Step(t, next) /\ share' \in {share, [share EXCEPT ![s].on = FALSE]}
           /\ Blame({"short", "left"})
  BY <1>1, <1>2, KeptFacts DEF Blame
<1>3. CASE /\ share' = [share EXCEPT ![s] = [on |-> FALSE, live |-> FALSE]]
           /\ Step(t, IF task[t].pc = "smb" THEN [next EXCEPT !.smb = @ \cup {s}]
                                           ELSE [next EXCEPT !.nfs = @ \cup {s}])
           /\ UNCHANGED blame
  <2>1. CASE task[t].pc = "smb"
    <3> DEFINE m == [next EXCEPT !.smb = @ \cup {s}]
    <3>1. s \in task[t].todo
      BY DEF DisableShare
    <3>2. s \in Smb
      BY <2>1, <3>1 DEF ListInv
    <3>3. /\ m \in Record /\ m.kind = task[t].kind /\ m.pc = task[t].pc
          /\ m.apps = task[t].apps /\ m.ids = task[t].ids /\ m.todo = task[t].todo \ {s}
          /\ m.cur = task[t].cur /\ m.smb = task[t].smb \cup {s} /\ m.nfs = task[t].nfs
      BY <1>1, <3>2 DEF Record, Same
    <3> HIDE DEF m
    <3>4. Step(t, m)
      BY <1>3, <2>1 DEF m
    <3> QED
      BY <1>3, <2>1, <3>3, <3>4, StepFacts
  <2>2. CASE task[t].pc # "smb"
    <3> DEFINE m == [next EXCEPT !.nfs = @ \cup {s}]
    <3>1. task[t].pc = "nfs" /\ s \in task[t].todo
      BY <2>2 DEF DisableShare, Toggling
    <3>2. s \in Nfs
      BY <3>1 DEF ListInv
    <3>3. /\ m \in Record /\ m.kind = task[t].kind /\ m.pc = task[t].pc
          /\ m.apps = task[t].apps /\ m.ids = task[t].ids /\ m.todo = task[t].todo \ {s}
          /\ m.cur = task[t].cur /\ m.smb = task[t].smb /\ m.nfs = task[t].nfs \cup {s}
      BY <1>1, <3>2 DEF Record, Same
    <3> HIDE DEF m
    <3>4. Step(t, m)
      BY <1>3, <2>2 DEF m
    <3> QED
      BY <1>3, <2>2, <3>3, <3>4, StepFacts
  <2> QED
    BY <2>1, <2>2
<1> QED
  BY <1>2, <1>3 DEF DisableShare, next

\* After the SMB shares come the enabled NFS shares, and then the swap.
LEMMA SharesDisabled_Task ==
  ASSUME TypeOK, NEW t \in Task, SharesDisabled(t)
  PROVE  IF task[t].pc = "smb" THEN Kept(t, "nfs", {s \in Nfs : share[s].on}, task[t].cur)
         ELSE Kept(t, "guard", {}, task[t].cur)
<1>0. task[t] \in Record
  BY TaskFacts
<1>1. ASSUME Step(t, [task[t] EXCEPT !.pc = "nfs", !.todo = {s \in Nfs : share[s].on}])
      PROVE  Kept(t, "nfs", {s \in Nfs : share[s].on}, task[t].cur)
  <2> DEFINE m == [task[t] EXCEPT !.pc = "nfs", !.todo = {s \in Nfs : share[s].on}]
  <2>1. m \in Record /\ Same(m, task[t]) /\ m.pc = "nfs" /\ m.todo = {s \in Nfs : share[s].on} /\ m.cur = task[t].cur
    BY <1>0 DEF Record, Same, Share
  <2> HIDE DEF m
  <2>2. Step(t, m)
    BY <1>1 DEF m
  <2> QED
    BY <2>1, <2>2, KeptFacts
<1> QED
  BY <1>1, GotoFacts DEF SharesDisabled

\* A share that was handled leaves the list.
LEMMA EnableShare_Task ==
  ASSUME TypeOK, NEW t \in Task, NEW s, EnableShare(t, s)
  PROVE  Kept(t, task[t].pc, task[t].todo \ {s}, task[t].cur)
<1>0. task[t] \in Record
  BY TaskFacts
<1> DEFINE m == [task[t] EXCEPT !.todo = @ \ {s}]
<1>1. m \in Record /\ Same(m, task[t]) /\ m.pc = task[t].pc /\ m.todo = task[t].todo \ {s} /\ m.cur = task[t].cur
  BY <1>0 DEF Record, Same
<1>2. Step(t, m)
  BY DEF EnableShare
<1> HIDE DEF m
<1> QED
  BY <1>1, <1>2, KeptFacts

\* The resume begins with the NFS shares.
LEMMA Resume_Task ==
  ASSUME TypeOK, NEW t \in Task, NEW out \in {"ok", "swap"}, Resume(t, out)
  PROVE  Kept(t, "renfs", task[t].nfs, task[t].cur)
<1>0. task[t] \in Record
  BY TaskFacts
<1> DEFINE m == [task[t] EXCEPT !.pc = "renfs", !.out = out, !.todo = task[t].nfs]
<1>1. m \in Record /\ Same(m, task[t]) /\ m.pc = "renfs" /\ m.todo = task[t].nfs /\ m.cur = task[t].cur
  BY <1>0 DEF Record, Same, Share
<1>2. Step(t, m)
  BY DEF Resume
<1> HIDE DEF m
<1> QED
  BY <1>1, <1>2, KeptFacts

\* The lists of the resume, in order.
LEMMA ResumeNext_Task ==
  ASSUME TypeOK, NEW t \in Task, ResumeNext(t)
  PROVE  \/ task[t].pc = "renfs" /\ Kept(t, "resmb", task[t].smb, task[t].cur)
         \/ task[t].pc = "resmb" /\ Kept(t, "revms", task[t].ids, task[t].cur)
         \/ task[t].pc = "revms" /\ Kept(t, "reapps", task[t].apps, task[t].cur)
         \/ task[t].pc = "reapps" /\ Kept(t, "done", {}, task[t].cur)
<1>0. task[t] \in Record
  BY TaskFacts
<1>1. ASSUME Step(t, [task[t] EXCEPT !.pc = "resmb", !.todo = task[t].smb])
      PROVE  Kept(t, "resmb", task[t].smb, task[t].cur)
  <2> DEFINE m == [task[t] EXCEPT !.pc = "resmb", !.todo = task[t].smb]
  <2>1. m \in Record /\ Same(m, task[t]) /\ m.pc = "resmb" /\ m.todo = task[t].smb /\ m.cur = task[t].cur
    BY <1>0 DEF Record, Same, Share
  <2> HIDE DEF m
  <2>2. Step(t, m)
    BY <1>1 DEF m
  <2> QED
    BY <2>1, <2>2, KeptFacts
<1>2. ASSUME Step(t, [task[t] EXCEPT !.pc = "revms", !.todo = task[t].ids])
      PROVE  Kept(t, "revms", task[t].ids, task[t].cur)
  <2> DEFINE m == [task[t] EXCEPT !.pc = "revms", !.todo = task[t].ids]
  <2>1. m \in Record /\ Same(m, task[t]) /\ m.pc = "revms" /\ m.todo = task[t].ids /\ m.cur = task[t].cur
    BY <1>0 DEF Record, Same, Share
  <2> HIDE DEF m
  <2>2. Step(t, m)
    BY <1>2 DEF m
  <2> QED
    BY <2>1, <2>2, KeptFacts
<1>3. ASSUME Step(t, [task[t] EXCEPT !.pc = "reapps", !.todo = task[t].apps])
      PROVE  Kept(t, "reapps", task[t].apps, task[t].cur)
  <2> DEFINE m == [task[t] EXCEPT !.pc = "reapps", !.todo = task[t].apps]
  <2>1. m \in Record /\ Same(m, task[t]) /\ m.pc = "reapps" /\ m.todo = task[t].apps /\ m.cur = task[t].cur
    BY <1>0 DEF Record, Same, Share
  <2> HIDE DEF m
  <2>2. Step(t, m)
    BY <1>3 DEF m
  <2> QED
    BY <2>1, <2>2, KeptFacts
<1> QED
  BY <1>1, <1>2, <1>3, GotoFacts DEF ResumeNext

\* A VM that was handled leaves the list; one that was started is greeted.
LEMMA StartVm_Task ==
  ASSUME TypeOK, NEW t \in Task, NEW i \in VmId, StartVm(t, i)
  PROVE  \/ Kept(t, "revms", task[t].todo \ {i}, task[t].cur)
         \/ Kept(t, "greet", task[t].todo \ {i}, i)
<1>0. task[t] \in Record /\ task[t].pc = "revms"
  BY TaskFacts DEF StartVm
<1>1. ASSUME Step(t, [task[t] EXCEPT !.pc = "greet", !.cur = i, !.todo = @ \ {i}])
      PROVE  Kept(t, "greet", task[t].todo \ {i}, i)
  <2> DEFINE m == [task[t] EXCEPT !.pc = "greet", !.cur = i, !.todo = @ \ {i}]
  <2>1. m \in Record
    BY <1>0 DEF Record
  <2>2. Same(m, task[t]) /\ m.pc = "greet" /\ m.todo = task[t].todo \ {i} /\ m.cur = i
    BY <1>0 DEF Record, Same
  <2> HIDE DEF m
  <2>3. Step(t, m)
    BY <1>1 DEF m
  <2> QED
    BY <2>1, <2>2, <2>3, KeptFacts
<1> QED
  BY <1>0, <1>1, TakenFacts DEF StartVm

\* After the greeting the list goes on.
LEMMA Greet_Task ==
  ASSUME TypeOK, NEW t \in Task, Greet(t)
  PROVE  Kept(t, "revms", task[t].todo, NoVm)
<1>0. task[t] \in Record
  BY TaskFacts
<1> DEFINE m == [task[t] EXCEPT !.pc = "revms", !.cur = NoVm]
<1>1. m \in Record /\ Same(m, task[t]) /\ m.pc = "revms" /\ m.todo = task[t].todo /\ m.cur = NoVm
  BY <1>0 DEF Record, Same
<1>2. Step(t, m)
  BY DEF Greet
<1> HIDE DEF m
<1> QED
  BY <1>1, <1>2, KeptFacts

\* An app that was handled leaves the list.
LEMMA StartApp_Task ==
  ASSUME TypeOK, NEW t \in Task, NEW a, StartApp(t, a)
  PROVE  Kept(t, "reapps", task[t].todo \ {a}, task[t].cur)
<1>0. task[t] \in Record
  BY TaskFacts
<1> DEFINE m == [task[t] EXCEPT !.todo = @ \ {a}]
<1>1. m \in Record /\ Same(m, task[t]) /\ m.pc = task[t].pc /\ m.todo = task[t].todo \ {a} /\ m.cur = task[t].cur
  BY <1>0 DEF Record, Same
<1>2. Step(t, m)
  BY DEF StartApp
<1> HIDE DEF m
<1> QED
  BY <1>1, <1>2, KeptFacts DEF StartApp

\* The last steps of a lock.
LEMMA Lock_Task ==
  ASSUME TypeOK, NEW t \in Task, Unmount(t) \/ UnlinkKey(t)
  PROVE  \/ task[t].pc = "unmount" /\ Kept(t, "unlink", task[t].todo, task[t].cur)
         \/ Kept(t, "done", task[t].todo, task[t].cur)
<1>0. task[t] \in Record
  BY TaskFacts
<1>1. ASSUME Step(t, [task[t] EXCEPT !.pc = "done", !.out = "busy"])
      PROVE  Kept(t, "done", task[t].todo, task[t].cur)
  <2> DEFINE m == [task[t] EXCEPT !.pc = "done", !.out = "busy"]
  <2>1. m \in Record /\ Same(m, task[t]) /\ m.pc = "done" /\ m.todo = task[t].todo /\ m.cur = task[t].cur
    BY <1>0 DEF Record, Same
  <2> HIDE DEF m
  <2>2. Step(t, m)
    BY <1>1 DEF m
  <2> QED
    BY <2>1, <2>2, KeptFacts
<1>2. ASSUME Step(t, [task[t] EXCEPT !.pc = "done"])
      PROVE  Kept(t, "done", task[t].todo, task[t].cur)
  <2> DEFINE m == [task[t] EXCEPT !.pc = "done"]
  <2>1. m \in Record /\ Same(m, task[t]) /\ m.pc = "done" /\ m.todo = task[t].todo /\ m.cur = task[t].cur
    BY <1>0 DEF Record, Same
  <2> HIDE DEF m
  <2>2. Step(t, m)
    BY <1>2 DEF m
  <2> QED
    BY <2>1, <2>2, KeptFacts
<1> QED
  BY <1>1, <1>2, GotoFacts DEF Unmount, UnlinkKey

-----------------------------------------------------------------------------
(* Types and program points.                                                 *)

\* The two halves of the type invariant.
TaskOK ==
    /\ task \in [Task -> Record]
    /\ \A t \in Task :
          /\ task[t].pc = "idle" \/ task[t].kind = "none" => task[t] = Idle
          /\ task[t].ids \subseteq IF task[t].kind = "lock" THEN Vm ELSE VmId
          /\ task[t].cur \in task[t].ids \cup {NoVm}

WorldOK ==
    /\ app \subseteq App
    /\ vm \in [VmId -> VmState]
    /\ share \in [Share -> [on : BOOLEAN, live : BOOLEAN]]
    /\ live \in Content \cup {"gone"} /\ safety \subseteq Content
    /\ guard \subseteq Task /\ \A t, o \in guard : t = o
    /\ fs \in [mounted : BOOLEAN, key : BOOLEAN]
    /\ events \in 0 .. MaxEvents
    /\ want \subseteq App \cup VmId \cup Share
    /\ blame \subseteq {"overlap", "short", "left", "mute"}

Base == TypeOK /\ KindInv /\ ListInv

\* A request that goes on with its lists stays in bounds.
LEMMA Kept_Base ==
  ASSUME Base, NEW t \in Task, NEW pc, NEW todo, NEW cur, Kept(t, pc, todo, cur),
         task[t].pc # "idle", pc # "idle",
         pc \in ShareDownPcs \cup ResumePcs => task[t].kind = "rollback",
         IF pc \in GuestPcs \cup {"greet"} THEN cur \in task[t].ids \ todo ELSE cur = NoVm,
         pc \in {"press", "quit", "greet"} => cur \in VmId,
         pc \in {"smb", "resmb"} => todo \subseteq Smb,
         pc \in {"nfs", "renfs"} => todo \subseteq Nfs,
         pc = "apps" => todo \subseteq task[t].apps,
         pc \in VmPcs \cup {"revms", "greet"} => todo \subseteq task[t].ids
  PROVE  TaskOK' /\ KindInv' /\ ListInv'
<1>1. TypeOK /\ task[t].kind # "none"
  BY TaskFacts DEF Base
<1>2. TaskOK'
  BY <1>1 DEF TypeOK, TaskOK, Kept, Same, Alone
<1>3. KindInv'
  BY DEF Base, KindInv, Kept, Same, Alone
<1>4. ListInv'
  BY DEF Base, ListInv, Kept, Same, Alone
<1> QED
  BY <1>2, <1>3, <1>4

\* A request that is over.
LEMMA Over_Base ==
  ASSUME Base, NEW t \in Task, Step(t, Idle)
  PROVE  Alone(t) /\ task'[t] = Idle /\ TaskOK' /\ KindInv' /\ ListInv'
<1>1. TypeOK /\ Alone(t) /\ task'[t] = Idle
  BY IdleFacts, StepFacts DEF Base
<1>2. TaskOK'
  BY <1>1, IdleFacts DEF TypeOK, TaskOK, Alone
<1>3. KindInv' /\ ListInv'
  BY <1>1, IdleFacts
  DEF Base, KindInv, ListInv, Alone, ShareDownPcs, SwapPcs, ResumePcs, VmPcs
<1> QED
  BY <1>1, <1>2, <1>3

\* A step that leaves the requests alone.
LEMMA Still_Base ==
  ASSUME Base, UNCHANGED task
  PROVE  TaskOK' /\ KindInv' /\ ListInv'
  BY DEF Base, TypeOK, TaskOK, KindInv, ListInv

\* A request that gets its lists.
LEMMA Deps_Base ==
  ASSUME Base, NEW t \in Task, LockDeps(t) \/ RollbackDeps(t)
  PROVE  TaskOK' /\ KindInv' /\ ListInv'
<1> USE DEF ShareDownPcs, SwapPcs, ResumePcs, VmPcs
<1>0. TypeOK /\ task[t].cur = NoVm /\ task[t].pc = "deps" /\ task[t].kind \in Kinds
  BY TaskFacts DEF Base, KindInv, LockDeps, RollbackDeps
<1>1. CASE Kept(t, "done", task[t].todo, task[t].cur)
  BY <1>0, <1>1, Kept_Base
<1>2. CASE /\ Alone(t) /\ task'[t].kind = "lock" /\ task'[t].pc = "apps"
           /\ task'[t].ids = Vm /\ task'[t].cur = task[t].cur
           /\ task'[t].todo \subseteq task'[t].apps
  <2>1. TaskOK'
    BY <1>0, <1>2 DEF TypeOK, TaskOK, Alone
  <2>2. KindInv' /\ ListInv'
    BY <1>0, <1>2 DEF Base, KindInv, ListInv, Alone
  <2> QED
    BY <2>1, <2>2
<1>3. CASE /\ Alone(t) /\ task'[t].kind = "rollback" /\ task'[t].pc = "apps"
           /\ task'[t].ids \subseteq VmId /\ task'[t].cur = task[t].cur
           /\ task'[t].todo \subseteq task'[t].apps
  <2>1. TaskOK'
    BY <1>0, <1>3 DEF TypeOK, TaskOK, Alone
  <2>2. KindInv' /\ ListInv'
    BY <1>0, <1>3 DEF Base, KindInv, ListInv, Alone
  <2> QED
    BY <2>1, <2>2
<1> QED
  BY <1>0, <1>1, <1>2, <1>3, LockDeps_Task, RollbackDeps_Task

\* A new request.
LEMMA Request_Task ==
  ASSUME TypeOK, NEW t \in Task, NEW k \in Kinds, Request(t, k)
  PROVE  /\ Alone(t) /\ task'[t].kind = k /\ task'[t].pc = "deps" /\ task'[t].cur = NoVm
         /\ task'[t].apps = {} /\ task'[t].ids = {} /\ task'[t].smb = {}
         /\ task'[t].nfs = {} /\ task'[t].todo = {}
<1> DEFINE m == [Idle EXCEPT !.kind = k, !.pc = "deps"]
<1>1. /\ m \in Record /\ m.kind = k /\ m.pc = "deps" /\ m.cur = Idle.cur
      /\ m.apps = Idle.apps /\ m.ids = Idle.ids /\ m.smb = Idle.smb
      /\ m.nfs = Idle.nfs /\ m.todo = Idle.todo
  BY IdleFacts DEF Record
<1>2. Step(t, m)
  BY DEF Request
<1> HIDE DEF m
<1> QED
  BY <1>1, <1>2, IdleFacts, StepFacts

\* The requests stay in bounds, step by step.
LEMMA Task_Base ==
  ASSUME Base, NEW t \in Task, Continue(t) \/ Dropped(t) \/ \E k \in Kinds : Request(t, k)
  PROVE  TaskOK' /\ KindInv' /\ ListInv'
<1> USE DEF ShareDownPcs, SwapPcs, ResumePcs, VmPcs
<1> DEFINE r == task[t]
<1>0. /\ TypeOK /\ ListInv /\ r \in Record
      /\ IF r.pc \in GuestPcs \cup {"greet"} THEN r.cur \in r.ids \ r.todo ELSE r.cur = NoVm
      /\ r.pc \in {"press", "quit", "greet"} => r.cur \in VmId
      /\ r.pc \in ShareDownPcs \cup ResumePcs => r.kind = "rollback"
      /\ r.pc # "idle" => r.kind \in Kinds
  BY TaskFacts DEF Base, KindInv
<1>1. ASSUME NEW k \in Kinds, Request(t, k) PROVE TaskOK' /\ KindInv' /\ ListInv'
  <2>1. /\ Alone(t) /\ task'[t].kind = k /\ task'[t].pc = "deps" /\ task'[t].cur = NoVm
        /\ task'[t].ids = {}
    BY <1>0, <1>1, Request_Task
  <2>2. TaskOK'
    BY <1>0, <2>1 DEF TypeOK, TaskOK, Alone
  <2>3. KindInv' /\ ListInv'
    BY <2>1 DEF Base, KindInv, ListInv, Alone
  <2> QED
    BY <2>2, <2>3
<1>2. CASE Dropped(t) \/ Reply(t)
  BY <1>2, Over_Base DEF Dropped, Reply
<1>3. CASE LockDeps(t) \/ RollbackDeps(t)
  BY <1>3, Deps_Base
<1>4. ASSUME NEW a \in App, StopApp(t, a) \/ StartApp(t, a)
      PROVE  TaskOK' /\ KindInv' /\ ListInv'
  <2>1. CASE StopApp(t, a)
    BY <1>0, <2>1, StopApp_Task, Kept_Base DEF StopApp, ListInv
  <2>2. CASE StartApp(t, a)
    BY <1>0, <2>2, StartApp_Task, Kept_Base DEF StartApp
  <2> QED
    BY <1>4, <2>1, <2>2
<1>5. CASE StopAppFails(t) \/ AppsStopped(t)
  BY <1>0, <1>5, StopAppFails_Task, AppsStopped_Task, Kept_Base DEF StopAppFails, AppsStopped
<1>6. ASSUME NEW v \in Vm \cup VmId, StopVm(t, v) PROVE TaskOK' /\ KindInv' /\ ListInv'
  <2>1. r.pc = "vms" /\ v \in r.todo
    BY <1>6 DEF StopVm
  <2>2. v \in r.ids /\ r.todo \subseteq r.ids
    BY <1>0, <2>1 DEF Base, ListInv
  <2>3. \/ Kept(t, "vms", r.todo \ {v}, r.cur)
        \/ v \in VmId /\ Kept(t, "press", r.todo \ {v}, v)
        \/ Kept(t, "kill", r.todo \ {v}, v)
    BY <1>0, <1>6, StopVm_Task
  <2> QED
    BY <1>0, <2>1, <2>2, <2>3, Kept_Base
<1>7. CASE PressButton(t) \/ VmWait(t) \/ KillVm(t) \/ QuitVm(t) \/ KillVmFails(t)
  <2>1. r.pc \in GuestPcs
    BY <1>7 DEF PressButton, VmWait, KillVm, QuitVm, KillVmFails
  <2>2. r.todo \subseteq r.ids
    BY <1>0, <2>1 DEF ListInv
  <2> QED
    BY <1>0, <1>7, <2>1, <2>2, PressButton_Task, VmWait_Task, KillVm_Task, QuitVm_Task,
       KillVmFails_Task, Kept_Base
<1>8. CASE VmsStopped(t)
  <2>1. r.pc = "vms"
    BY <1>8 DEF VmsStopped
  <2> QED
    BY <1>0, <1>8, <2>1, VmsStopped_Task, Kept_Base
<1>9. ASSUME NEW s \in Share, DisableShare(t, s) PROVE TaskOK' /\ KindInv' /\ ListInv'
  <2>1. r.pc \in {"smb", "nfs"} /\ s \in r.todo
    BY <1>9 DEF DisableShare, Toggling
  <2>2. CASE Kept(t, r.pc, r.todo \ {s}, r.cur)
    BY <1>0, <2>1, <2>2, Kept_Base DEF ListInv
  <2>3. CASE /\ Alone(t) /\ task'[t].kind = r.kind /\ task'[t].pc = r.pc
             /\ task'[t].ids = r.ids /\ task'[t].cur = r.cur /\ task'[t].todo = r.todo \ {s}
    <3>1. TaskOK'
      BY <1>0, <2>1, <2>3 DEF TypeOK, TaskOK, Alone
    <3>2. KindInv' /\ ListInv'
      BY <1>0, <2>1, <2>3 DEF Base, KindInv, ListInv, Alone
    <3> QED
      BY <3>1, <3>2
  <2> QED
    BY <1>0, <1>9, <2>2, <2>3, DisableShare_Task
<1>10. ASSUME NEW s \in Share, EnableShare(t, s) PROVE TaskOK' /\ KindInv' /\ ListInv'
  BY <1>0, <1>10, EnableShare_Task, Kept_Base DEF EnableShare, ListInv
<1>11. CASE SharesDisabled(t)
  BY <1>0, <1>11, SharesDisabled_Task, Kept_Base DEF SharesDisabled, Toggling
<1>12. ASSUME NEW out \in {"ok", "swap"}, Resume(t, out), r.pc \in SwapPcs
       PROVE  TaskOK' /\ KindInv' /\ ListInv'
  <2>1. Kept(t, "renfs", r.nfs, r.cur) /\ r.nfs \subseteq Nfs
    BY <1>0, <1>12, Resume_Task DEF Record
  <2> QED
    BY <1>0, <1>12, <2>1, Kept_Base
<1>13. CASE AcquireGuard(t) \/ SwapCheck(t) \/ SafetySnapshot(t) \/ DeleteLive(t) \/ Recreate(t)
  BY <1>0, <1>12, <1>13, GotoFacts, Kept_Base
  DEF AcquireGuard, SwapCheck, SafetySnapshot, DeleteLive, Recreate
<1>14. CASE ResumeNext(t)
  <2>1. r.smb \subseteq Smb /\ r.pc \in ResumePcs \ {"greet"}
    BY <1>0, <1>14 DEF Record, ResumeNext
  <2> QED
    BY <1>0, <1>14, <2>1, ResumeNext_Task, Kept_Base
<1>15. ASSUME NEW i \in VmId, StartVm(t, i) PROVE TaskOK' /\ KindInv' /\ ListInv'
  <2>1. r.pc = "revms" /\ i \in r.todo
    BY <1>15 DEF StartVm
  <2>2. r.todo \subseteq r.ids
    BY <1>0, <2>1 DEF ListInv
  <2>3. CASE Kept(t, "revms", r.todo \ {i}, r.cur)
    BY <1>0, <2>1, <2>2, <2>3, Kept_Base
  <2>4. CASE Kept(t, "greet", r.todo \ {i}, i)
    <3>1. i \in r.ids \ (r.todo \ {i}) /\ r.todo \ {i} \subseteq r.ids
      BY <2>1, <2>2
    <3>2. r.kind = "rollback" /\ r.pc # "idle"
      BY <1>0, <2>1 DEF KindInv
    <3> QED
      BY <2>4, <3>1, <3>2, Kept_Base
  <2> QED
    BY <1>0, <1>15, <2>3, <2>4, StartVm_Task
<1>17. CASE Greet(t)
  <2>1. r.pc = "greet" /\ r.todo \subseteq r.ids
    BY <1>0, <1>17 DEF Greet, ListInv
  <2> QED
    BY <1>0, <1>17, <2>1, Greet_Task, Kept_Base
<1>16. CASE Unmount(t) \/ UnlinkKey(t)
  <2>1. r.pc \in {"unmount", "unlink"}
    BY <1>16 DEF Unmount, UnlinkKey
  <2> QED
    BY <1>0, <1>16, <2>1, Lock_Task, Kept_Base
<1> QED
  BY <1>1, <1>2, <1>3, <1>4, <1>5, <1>6, <1>7, <1>8, <1>9, <1>10, <1>11, <1>13, <1>14,
     <1>15, <1>16, <1>17 DEF Continue

\* What the requests act on stays in bounds.
LEMMA World_Step ==
  ASSUME Base, Next
  PROVE  WorldOK'
<1> USE DEF VmState, Content, Blame
<1>0. WorldOK /\ TypeOK
  BY DEF Base, TypeOK, WorldOK
<1> DEFINE Same_World == UNCHANGED <<services, storage, guard, events, want, blame>>
<1>1. CASE Same_World
  BY <1>0, <1>1 DEF WorldOK, services, storage
<1>2. ASSUME NEW t \in Task, NEW k \in Kinds, Request(t, k) PROVE WorldOK'
  BY <1>0, <1>2 DEF WorldOK, Request, services, storage
<1>3. ASSUME NEW t \in Task, Dropped(t) PROVE WorldOK'
  BY <1>0, <1>3 DEF WorldOK, Dropped, services, storage
<1>4. ASSUME NEW t \in Task, RollbackDeps(t) PROVE WorldOK'
  <2>1. blame' \in {blame, blame \cup {"short"}}
    BY <1>4 DEF RollbackDeps
  <2> QED
    BY <1>0, <1>4, <2>1 DEF WorldOK, RollbackDeps, services, storage
<1>5. ASSUME NEW t \in Task, NEW a \in App, StopApp(t, a) \/ StartApp(t, a) PROVE WorldOK'
  BY <1>0, <1>5 DEF WorldOK, StopApp, StartApp, services, storage
<1>6. ASSUME NEW t \in Task, StopAppFails(t) \/ KillVmFails(t) PROVE WorldOK'
  BY <1>0, <1>6 DEF WorldOK, StopAppFails, KillVmFails, services, storage
<1>7. ASSUME NEW t \in Task, NEW v \in Vm \cup VmId, StopVm(t, v) PROVE WorldOK'
  <2>1. blame' \in {blame, blame \cup {"mute"}}
    BY <1>7 DEF StopVm
  <2> QED
    BY <1>0, <1>7, <2>1 DEF WorldOK, StopVm, services, storage
<1>8. ASSUME NEW t \in Task, PressButton(t) \/ VmWait(t) \/ QuitVm(t) PROVE WorldOK'
  <2>1. vm' \in [VmId -> VmState]
    BY <1>0, <1>8 DEF WorldOK, PressButton, VmWait, QuitVm, services
  <2>2. blame' \in {blame, blame \cup {"mute"}} /\ want' \subseteq want
    BY <1>8 DEF PressButton, VmWait, QuitVm
  <2>3. UNCHANGED <<app, share, storage, guard, events>>
    BY <1>8 DEF PressButton, VmWait, QuitVm, services
  <2> QED
    BY <1>0, <2>1, <2>2, <2>3 DEF WorldOK, storage
<1>9. ASSUME NEW t \in Task, NEW s \in Share, DisableShare(t, s) \/ EnableShare(t, s)
      PROVE  WorldOK'
  <2>1. share' \in [Share -> [on : BOOLEAN, live : BOOLEAN]]
    <3>1. share \in [Share -> [on : BOOLEAN, live : BOOLEAN]]
      BY <1>0 DEF WorldOK
    <3>2. \/ share' = share
          \/ \E b \in BOOLEAN : \/ share' = [share EXCEPT ![s].on = b]
                                \/ share' = [share EXCEPT ![s] = [on |-> b, live |-> b]]
      BY <1>9 DEF DisableShare, EnableShare
    <3> QED
      BY <3>1, <3>2
  <2>2. blame' \in {blame, blame \cup {"short", "left"}}
    BY <1>9 DEF DisableShare, EnableShare
  <2> QED
    BY <1>0, <1>9, <2>1, <2>2 DEF WorldOK, DisableShare, EnableShare, storage
<1>10. ASSUME NEW t \in Task, \/ AcquireGuard(t) \/ SwapCheck(t) \/ SafetySnapshot(t)
                              \/ DeleteLive(t) \/ Recreate(t)
       PROVE  WorldOK'
  <2>1. guard' \in {guard, guard \ {t}} \/ (guard = {} /\ guard' = {t})
    BY <1>10 DEF AcquireGuard, SwapCheck, SafetySnapshot, DeleteLive, Recreate, Resume
  <2>2. live' \in Content \cup {"gone"} /\ safety' \subseteq Content
    BY <1>0, <1>10 DEF WorldOK, AcquireGuard, SwapCheck, SafetySnapshot, DeleteLive,
                       Recreate, storage
  <2>3. UNCHANGED <<services, fs, events, want, blame>>
    BY <1>10 DEF AcquireGuard, SwapCheck, SafetySnapshot, DeleteLive, Recreate, storage
  <2> QED
    BY <1>0, <2>1, <2>2, <2>3 DEF WorldOK, services
<1>11. ASSUME NEW t \in Task, NEW i \in VmId, StartVm(t, i) PROVE WorldOK'
  BY <1>0, <1>11 DEF WorldOK, StartVm, storage
<1>12. ASSUME NEW t \in Task, Unmount(t) \/ UnlinkKey(t) PROVE WorldOK'
  BY <1>0, <1>12 DEF WorldOK, Unmount, UnlinkKey, services
<1>13. ASSUME NEW a \in App, OperatorApp(a) PROVE WorldOK'
  BY <1>0, <1>13 DEF WorldOK, OperatorApp, Event, storage
<1>14. ASSUME NEW i \in VmId, \/ OperatorVm(i) \/ MonitorHangs(i) \/ MonitorRecovers(i)
                              \/ GuestStops(i)
       PROVE  WorldOK'
  <2>1. /\ \E x \in VmState : vm' = [vm EXCEPT ![i] = x]
        /\ want' \in {want, want \cup {i}, want \ {i}}
        /\ blame' \in {blame, blame \cup {"overlap"}}
        /\ events' = events \/ (events < MaxEvents /\ events' = events + 1)
        /\ UNCHANGED <<app, share, storage, guard>>
    <3>1. CASE OperatorVm(i)
      BY <3>1 DEF OperatorVm, Event
    <3>2. CASE MonitorHangs(i)
      BY <3>2 DEF MonitorHangs, Event
    <3>3. CASE MonitorRecovers(i) \/ GuestStops(i)
      BY <3>3 DEF MonitorRecovers, GuestStops
    <3> QED
      BY <1>14, <3>1, <3>2, <3>3
  <2>2. vm' \in [VmId -> VmState] /\ want' \subseteq App \cup VmId \cup Share
    BY <1>0, <2>1 DEF WorldOK
  <2>3. events' \in 0 .. MaxEvents /\ blame' \subseteq {"overlap", "short", "left", "mute"}
    BY <1>0, <2>1 DEF WorldOK
  <2> QED
    BY <1>0, <2>1, <2>2, <2>3 DEF WorldOK, storage
<1>15. CASE Reopen
  BY <1>0, <1>15 DEF WorldOK, Reopen, services
<1>16. ASSUME NEW t \in Task, \/ LockDeps(t) \/ AppsStopped(t) \/ KillVm(t) \/ VmsStopped(t)
                              \/ SharesDisabled(t) \/ ResumeNext(t) \/ Greet(t) \/ Reply(t)
       PROVE  Same_World
  BY <1>16
  DEF LockDeps, AppsStopped, KillVm, VmsStopped, SharesDisabled, ResumeNext, Greet, Reply
<1> HIDE DEF Same_World
<1> QED
  BY <1>1, <1>2, <1>3, <1>4, <1>5, <1>6, <1>7, <1>8, <1>9, <1>10, <1>11, <1>12, <1>13,
     <1>14, <1>15, <1>16 DEF Next, Continue

\* Every step keeps types and program points.
LEMMA Base_Step ==
  ASSUME Base, [Next]_vars
  PROVE  Base'
<1>1. CASE UNCHANGED vars
  BY <1>1 DEF vars, services, storage, Base, TypeOK, KindInv, ListInv
<1>2. CASE Next
  <2>1. WorldOK'
    BY <1>2, World_Step
  <2>2. TaskOK' /\ KindInv' /\ ListInv'
    <3>1. CASE UNCHANGED task
      BY <3>1, Still_Base
    <3>2. CASE ~ UNCHANGED task
      <4>1. \E t \in Task : Continue(t) \/ Dropped(t) \/ \E k \in Kinds : Request(t, k)
        BY <1>2, <3>2 DEF Next, OperatorApp, OperatorVm, MonitorHangs, Event,
                          MonitorRecovers, GuestStops, Reopen
      <4> QED
        BY <4>1, Task_Base
    <3> QED
      BY <3>1, <3>2
  <2> QED
    BY <2>1, <2>2 DEF Base, TypeOK, TaskOK, WorldOK
<1> QED
  BY <1>1, <1>2

-----------------------------------------------------------------------------
(* The undo point.                                                           *)

\* A step that leaves the subvolume alone.
LEMMA Safe_Still ==
  ASSUME SafeInv, live' = live, safety' = safety,
         \A o \in Task : task'[o].pc \in {"delete", "recreate"} =>
            task'[o].pc = task[o].pc \/ task[o].pc \in {"delete", "recreate"}
  PROVE  SafeInv'
  BY DEF SafeInv, UndoPoint

\* Only a snapshot that holds it lets the original go.
LEMMA Safe_Step ==
  ASSUME Base, SafeInv, [Next]_vars
  PROVE  SafeInv'
<1>0. TypeOK
  BY DEF Base
<1>1. CASE UNCHANGED vars
  BY <1>1 DEF vars, storage, SafeInv, UndoPoint
<1>2. ASSUME NEW t \in Task, SafetySnapshot(t) PROVE SafeInv'
  <2>1. CASE /\ live # "gone" /\ safety' = safety \cup {live} /\ live' = live
             /\ Goto(t, "delete")
    <3>1. Kept(t, "delete", task[t].todo, task[t].cur)
      BY <1>0, <2>1, GotoFacts
    <3> QED
      BY <2>1, <3>1 DEF SafeInv, UndoPoint, Kept, Alone
  <2>2. CASE Resume(t, "swap") /\ UNCHANGED <<safety, live>>
    <3>1. Kept(t, "renfs", task[t].nfs, task[t].cur)
      BY <1>0, <2>2, Resume_Task
    <3> QED
      BY <2>2, <3>1, Safe_Still DEF Kept, Alone
  <2> QED
    BY <1>2, <2>1, <2>2 DEF SafetySnapshot
<1>3. ASSUME NEW t \in Task, DeleteLive(t) \/ Recreate(t) PROVE SafeInv'
  <2>1. "orig" \in safety /\ safety' = safety
    BY <1>3 DEF SafeInv, DeleteLive, Recreate
  <2> QED
    BY <2>1 DEF SafeInv, UndoPoint
<1>4. ASSUME live' = live, safety' = safety, NEW t \in Task, Alone(t),
             task'[t].pc \notin {"delete", "recreate"}
      PROVE  SafeInv'
  BY <1>4, Safe_Still DEF Alone
<1>5. CASE UNCHANGED <<live, safety, task>>
  BY <1>5, Safe_Still
<1>6. ASSUME NEW t \in Task, NEW k \in Kinds, Request(t, k) PROVE SafeInv'
  BY <1>0, <1>4, <1>6, Request_Task DEF Request, storage
<1>7. ASSUME NEW t \in Task, Dropped(t) \/ Reply(t) PROVE SafeInv'
  BY <1>4, <1>7, Over_Base, IdleFacts DEF Dropped, Reply, storage
<1>8. ASSUME NEW t \in Task, NEW pc, NEW todo, NEW cur, Kept(t, pc, todo, cur),
             pc \notin {"delete", "recreate"}, live' = live, safety' = safety
      PROVE  SafeInv'
  BY <1>4, <1>8 DEF Kept
<1>9. ASSUME NEW t \in Task, LockDeps(t) \/ RollbackDeps(t) PROVE SafeInv'
  <2>1. Alone(t) /\ task'[t].pc \in {"apps", "done"}
    BY <1>0, <1>9, LockDeps_Task, RollbackDeps_Task DEF Kept
  <2> QED
    BY <1>4, <1>9, <2>1 DEF LockDeps, RollbackDeps, storage
<1>10. ASSUME NEW t \in Task, NEW a \in App, StopApp(t, a) \/ StartApp(t, a) PROVE SafeInv'
  BY <1>0, <1>8, <1>10, StopApp_Task, StartApp_Task DEF StopApp, StartApp, storage
<1>11. ASSUME NEW t \in Task, StopAppFails(t) \/ AppsStopped(t) PROVE SafeInv'
  BY <1>0, <1>8, <1>11, StopAppFails_Task, AppsStopped_Task
  DEF StopAppFails, AppsStopped, storage
<1>12. ASSUME NEW t \in Task, NEW v \in Vm \cup VmId, StopVm(t, v) PROVE SafeInv'
  BY <1>0, <1>8, <1>12, StopVm_Task DEF StopVm, storage
<1>13. ASSUME NEW t \in Task, \/ PressButton(t) \/ VmWait(t) \/ KillVm(t) \/ QuitVm(t)
                              \/ KillVmFails(t) \/ Greet(t)
       PROVE  SafeInv'
  <2>1. UNCHANGED <<live, safety>>
    BY <1>13 DEF PressButton, VmWait, KillVm, QuitVm, KillVmFails, Greet, storage
  <2> QED
    BY <1>0, <1>8, <1>13, <2>1, PressButton_Task, VmWait_Task, KillVm_Task, QuitVm_Task,
       KillVmFails_Task, Greet_Task
<1>14. ASSUME NEW t \in Task, VmsStopped(t) \/ SharesDisabled(t) PROVE SafeInv'
  <2>1. UNCHANGED <<live, safety>>
    BY <1>14 DEF VmsStopped, SharesDisabled, storage
  <2> QED
    BY <1>0, <1>8, <1>14, <2>1, VmsStopped_Task, SharesDisabled_Task
<1>15. ASSUME NEW t \in Task, NEW s \in Share, DisableShare(t, s) \/ EnableShare(t, s)
       PROVE  SafeInv'
  <2>1. task[t].pc \notin {"delete", "recreate"} /\ UNCHANGED <<live, safety>>
    BY <1>15 DEF DisableShare, EnableShare, Toggling, storage
  <2>2. Alone(t) /\ task'[t].pc = task[t].pc
    BY <1>0, <1>15, DisableShare_Task, EnableShare_Task DEF Base, Kept
  <2> QED
    BY <1>4, <2>1, <2>2
<1>16. ASSUME NEW t \in Task, AcquireGuard(t) \/ SwapCheck(t) PROVE SafeInv'
  BY <1>0, <1>8, <1>16, GotoFacts, Resume_Task DEF AcquireGuard, SwapCheck, storage
<1>17. ASSUME NEW t \in Task, ResumeNext(t) PROVE SafeInv'
  <2>1. UNCHANGED <<live, safety>>
    BY <1>17 DEF ResumeNext, storage
  <2> QED
    BY <1>0, <1>8, <1>17, <2>1, ResumeNext_Task
<1>18. ASSUME NEW t \in Task, NEW i \in VmId, StartVm(t, i) PROVE SafeInv'
  BY <1>0, <1>8, <1>18, StartVm_Task DEF StartVm, storage
<1>19. ASSUME NEW t \in Task, Unmount(t) \/ UnlinkKey(t) PROVE SafeInv'
  <2>1. UNCHANGED <<live, safety>>
    BY <1>19 DEF Unmount, UnlinkKey
  <2> QED
    BY <1>0, <1>8, <1>19, <2>1, Lock_Task
<1>20. CASE \/ \E a \in App : OperatorApp(a)
            \/ \E i \in VmId : \/ OperatorVm(i) \/ MonitorHangs(i) \/ MonitorRecovers(i)
                               \/ GuestStops(i)
            \/ Reopen
  BY <1>5, <1>20 DEF OperatorApp, OperatorVm, MonitorHangs, MonitorRecovers, GuestStops,
                     Reopen, Event, storage
<1> QED
  BY <1>1, <1>2, <1>3, <1>6, <1>7, <1>9, <1>10, <1>11, <1>12, <1>13, <1>14, <1>15, <1>16,
     <1>17, <1>18, <1>19, <1>20 DEF Next, Continue

-----------------------------------------------------------------------------
(* The swap is quiet.                                                        *)

\* A request under way takes its own step.
LEMMA Continue_Facts ==
  ASSUME Base, NEW t \in Task, Continue(t)
  PROVE  Alone(t) /\ (Active(t) \/ Reply(t)) /\ (task'[t].pc = "idle" => Reply(t))
<1>0. TypeOK
  BY DEF Base
<1>1. CASE Reply(t)
  BY <1>1, Over_Base DEF Reply
<1>2. CASE LockDeps(t) \/ RollbackDeps(t)
  <2>1. Alone(t) /\ task'[t].pc \in {"apps", "done"}
    BY <1>0, <1>2, LockDeps_Task, RollbackDeps_Task DEF Kept
  <2> QED
    BY <1>2, <2>1 DEF Active, LockDeps, RollbackDeps
<1>3. CASE \E a \in App : StopApp(t, a) \/ StartApp(t, a)
  BY <1>0, <1>3, StopApp_Task, StartApp_Task DEF Active, Kept, StopApp, StartApp
<1>4. CASE StopAppFails(t) \/ AppsStopped(t)
  BY <1>0, <1>4, StopAppFails_Task, AppsStopped_Task DEF Active, Kept, StopAppFails, AppsStopped
<1>5. CASE \E v \in Vm \cup VmId : StopVm(t, v)
  <2>1. PICK v \in Vm \cup VmId : StopVm(t, v)
    BY <1>5
  <2>2. Alone(t) /\ task'[t].pc \in {"vms", "press", "kill"}
    BY <1>0, <2>1, StopVm_Task DEF Kept
  <2> QED
    BY <2>1, <2>2 DEF Active, StopVm
<1>6. CASE PressButton(t) \/ VmWait(t) \/ KillVm(t) \/ QuitVm(t) \/ KillVmFails(t) \/ Greet(t)
  <2>1. Alone(t) /\ task'[t].pc \in {"vms", "wait", "kill", "quit", "done", "reapps", "revms"}
    BY <1>0, <1>6, PressButton_Task, VmWait_Task, KillVm_Task, QuitVm_Task,
       KillVmFails_Task, Greet_Task DEF Kept
  <2> QED
    BY <1>6, <2>1 DEF Active, PressButton, VmWait, KillVm, QuitVm, KillVmFails, Greet
<1>7. CASE VmsStopped(t) \/ SharesDisabled(t)
  <2>1. Alone(t) /\ task'[t].pc \in {"unmount", "smb", "nfs", "guard"}
    BY <1>0, <1>7, VmsStopped_Task, SharesDisabled_Task DEF Kept
  <2> QED
    BY <1>7, <2>1 DEF Active, VmsStopped, SharesDisabled, Toggling
<1>8. CASE \E s \in Share : DisableShare(t, s) \/ EnableShare(t, s)
  <2>1. PICK s \in Share : DisableShare(t, s) \/ EnableShare(t, s)
    BY <1>8
  <2>2. Alone(t) /\ task'[t].pc = task[t].pc
    BY <1>0, <2>1, DisableShare_Task, EnableShare_Task DEF Base, Kept
  <2> QED
    BY <2>1, <2>2 DEF Active, DisableShare, EnableShare, Toggling
<1>9. CASE AcquireGuard(t) \/ SwapCheck(t) \/ SafetySnapshot(t) \/ DeleteLive(t) \/ Recreate(t)
  <2>1. \/ \E pc \in {"check", "safety", "delete", "recreate"} : Goto(t, pc)
        \/ \E out \in {"ok", "swap"} : Resume(t, out)
    BY <1>9 DEF AcquireGuard, SwapCheck, SafetySnapshot, DeleteLive, Recreate
  <2>2. Alone(t) /\ task'[t].pc # "idle"
    BY <1>0, <2>1, GotoFacts, Resume_Task DEF Kept
  <2> QED
    BY <1>9, <2>2 DEF Active, AcquireGuard, SwapCheck, SafetySnapshot, DeleteLive, Recreate
<1>10. CASE ResumeNext(t)
  BY <1>0, <1>10, ResumeNext_Task DEF Active, Kept
<1>11. CASE \E i \in VmId : StartVm(t, i)
  BY <1>0, <1>11, StartVm_Task DEF Active, Kept, StartVm
<1>12. CASE Unmount(t) \/ UnlinkKey(t)
  <2>1. Alone(t) /\ task'[t].pc # "idle"
    BY <1>0, <1>12, Lock_Task DEF Kept
  <2> QED
    BY <1>12, <2>1 DEF Active, Unmount, UnlinkKey
<1> QED
  BY <1>1, <1>2, <1>3, <1>4, <1>5, <1>6, <1>7, <1>8, <1>9, <1>10, <1>11, <1>12 DEF Continue

\* A step of the only cascade under way, or one that touches nothing.
LEMMA Quiet_Task ==
  ASSUME QuietInv, NEW t \in Task, Alone(t), Active(t) \/ UNCHANGED services,
         Active(t)' => Active(t), blame \subseteq blame', ExportInv',
         /\ blame' \cap {"overlap", "short", "mute"} = {} /\ task'[t].kind = "rollback"
         /\ task[t].kind = "rollback" => Stopped(t)
         => Stopped(t)'
  PROVE  QuietInv'
<1>1. OneInv'
  BY DEF QuietInv, OneInv, Active, Alone
<1>2. ASSUME blame' \cap {"overlap", "short", "mute"} = {}, NEW o \in Task, task'[o].kind = "rollback"
      PROVE  Stopped(o)'
  <2>1. blame \cap {"overlap", "short", "mute"} = {}
    BY <1>2
  <2>2. task[o].kind = "rollback" => Stopped(o)
    BY <2>1 DEF QuietInv, StoppedInv
  <2>3. CASE o = t
    BY <1>2, <2>2, <2>3
  <2>4. CASE o # t /\ UNCHANGED services
    BY <1>2, <2>2, <2>4 DEF Stopped, Down, Alone, services
  <2>5. CASE o # t /\ Active(t)
    <3>1. task'[o].pc \in {"idle", "done"}
      BY <2>1, <2>5 DEF QuietInv, OneInv, Active, Alone
    <3> QED
      BY <3>1 DEF Stopped, VmPcs, ShareDownPcs, SwapPcs
  <2> QED
    BY <2>3, <2>4, <2>5
<1> QED
  BY <1>1, <1>2 DEF QuietInv, StoppedInv

\* A request that has nothing stopped claims nothing.
LEMMA Stopped_Free ==
  ASSUME NEW t, task[t].pc \notin {"apps"} \cup VmPcs \cup ShareDownPcs
  PROVE  Stopped(t)
  BY DEF Stopped, VmPcs, ShareDownPcs, SwapPcs

\* A rollback lists everything, stops the apps, and goes on to the VMs.
LEMMA Quiet_Apps ==
  ASSUME Base, QuietInv, NEW t \in Task,
         \/ LockDeps(t) \/ RollbackDeps(t) \/ StopAppFails(t) \/ AppsStopped(t)
         \/ \E a \in App : StopApp(t, a)
  PROVE  QuietInv'
<1> USE DEF VmPcs, ShareDownPcs, SwapPcs
<1>0. /\ TypeOK /\ Alone(t) /\ Active(t) /\ share' = share /\ blame \subseteq blame'
  BY Continue_Facts
     DEF Base, Continue, Reply, LockDeps, RollbackDeps, StopAppFails, AppsStopped,
         StopApp, Active, Blame, services
<1>1. ExportInv'
  BY <1>0 DEF QuietInv, ExportInv
<1>2. ASSUME blame' \cap {"overlap", "short", "mute"} = {}, task'[t].kind = "rollback",
             task[t].kind = "rollback" => Stopped(t)
      PROVE  Stopped(t)'
  <2>1. CASE LockDeps(t)
    <3>1. task'[t].kind = "lock"
      BY <1>0, <2>1, LockDeps_Task DEF LockDeps, Kept, Same
    <3> QED
      BY <1>2, <3>1
  <2>2. CASE RollbackDeps(t)
    <3>1. CASE task'[t].pc = "apps" /\ task'[t].todo = App /\ task'[t].ids = VmId
      <4>1. app' \subseteq App
        BY <1>0, <2>2 DEF TypeOK, RollbackDeps, services
      <4> QED
        BY <3>1, <4>1 DEF Stopped
    <3>2. CASE task'[t].pc = "done"
      BY <3>2 DEF Stopped
    <3> QED
      BY <1>0, <1>2, <2>2, <3>1, <3>2, RollbackDeps_Task DEF Kept
  <2>3. CASE StopAppFails(t)
    <3>1. task'[t].pc = "done"
      BY <1>0, <2>3, StopAppFails_Task DEF Kept
    <3> QED
      BY <3>1 DEF Stopped
  <2>4. CASE AppsStopped(t)
    <3>1. /\ task'[t].pc = "vms" /\ task'[t].todo = task[t].ids /\ task[t].kind = "rollback"
      BY <1>0, <1>2, <2>4, AppsStopped_Task DEF Kept, Same
    <3>2. app' = {} /\ task[t].ids = VmId
      BY <1>2, <2>4, <3>1 DEF Stopped, AppsStopped, services
    <3> QED
      BY <3>1, <3>2 DEF Stopped
  <2>5. ASSUME NEW a \in App, StopApp(t, a) PROVE Stopped(t)'
    <3>1. /\ task'[t].pc = "apps" /\ task'[t].todo = task[t].todo \ {a}
          /\ task[t].kind = "rollback" /\ task'[t].ids = task[t].ids /\ task[t].pc = "apps"
      BY <1>0, <1>2, <2>5, StopApp_Task DEF Kept, Same, StopApp
    <3>2. app' \subseteq task'[t].todo /\ task'[t].ids = VmId
      BY <1>2, <2>5, <3>1 DEF Stopped, StopApp
    <3> QED
      BY <3>1, <3>2 DEF Stopped
  <2> QED
    BY <2>1, <2>2, <2>3, <2>4, <2>5
<1>3. Active(t)' => Active(t)
  BY <1>0
<1> QED
  BY <1>0, <1>1, <1>2, <1>3, Quiet_Task, SMTT(30)

\* The guest a rollback handles is the one it lists.
LEMMA RollbackGuest ==
  ASSUME Base, NEW t \in Task, task[t].kind = "rollback"
  PROVE  /\ \A v : Guest(t, v) = v
         /\ task[t].ids \subseteq VmId
         /\ task[t].pc \in GuestPcs => task[t].cur \in VmId \ task[t].todo
  BY DEF Base, TypeOK, KindInv, Guest

\* A rollback goes on once a guest is off or dying.
LEMMA Quiet_Vms ==
  ASSUME Base, QuietInv, NEW t \in Task,
         \/ \E v \in Vm \cup VmId : StopVm(t, v)
         \/ PressButton(t) \/ VmWait(t) \/ KillVm(t) \/ QuitVm(t) \/ KillVmFails(t)
  PROVE  QuietInv'
<1> USE DEF VmPcs, ShareDownPcs, SwapPcs
<1>0. /\ TypeOK /\ Alone(t) /\ Active(t) /\ share' = share /\ app' = app
      /\ blame \subseteq blame'
  <2>1. Alone(t) /\ (Active(t) \/ Reply(t))
    BY Continue_Facts DEF Continue
  <2>2. task[t].pc \in VmPcs
    BY DEF StopVm, PressButton, VmWait, KillVm, QuitVm, KillVmFails
  <2>3. share' = share /\ app' = app /\ blame \subseteq blame'
    BY DEF StopVm, PressButton, VmWait, KillVm, QuitVm, KillVmFails, Blame, services
  <2> QED
    BY <2>1, <2>2, <2>3 DEF Base, Reply, Active
<1>1. ExportInv'
  BY <1>0 DEF QuietInv, ExportInv
<1>2. ASSUME blame' \cap {"overlap", "short", "mute"} = {}, task'[t].kind = "rollback",
             task[t].kind = "rollback" => Stopped(t)
      PROVE  Stopped(t)'
  <2>0. vm \in [VmId -> VmState] /\ task'[t].kind = task[t].kind
    BY <1>0, StopVm_Task, PressButton_Task, VmWait_Task, KillVm_Task, QuitVm_Task,
       KillVmFails_Task DEF Kept, Same, TypeOK
  <2>1. /\ task[t].kind = "rollback" /\ Stopped(t) /\ \A v : Guest(t, v) = v
        /\ task[t].ids \subseteq VmId
        /\ task[t].pc \in GuestPcs => task[t].cur \in VmId \ task[t].todo
    BY <1>2, <2>0, RollbackGuest
  <2>2. ASSUME NEW v \in Vm \cup VmId, StopVm(t, v) PROVE Stopped(t)'
    <3>0. /\ task[t].pc = "vms" /\ v \in task[t].todo /\ UNCHANGED vm
          /\ app = {} /\ \A i \in VmId \ task[t].todo : vm[i] \in {"off", "dying"}
      BY <2>1, <2>2 DEF StopVm, Stopped, Down, services
    <3>1. CASE /\ ~ is_running(v) /\ ~ Unseen(v)
               /\ task'[t].pc = "vms" /\ task'[t].todo = task[t].todo \ {v}
      <4>1. v \in VmId => vm[v] \in {"off", "dying"}
        BY <2>0, <3>0, <3>1 DEF is_running, Unseen, Answers, Mute, VmState
      <4> QED
        BY <1>0, <3>0, <3>1, <4>1 DEF Stopped, Down
    <3>2. CASE /\ task'[t].pc \in {"press", "kill"}
               /\ task'[t].todo = task[t].todo \ {v} /\ task'[t].cur = v
      BY <1>0, <3>0, <3>2 DEF Stopped, Down
    <3> QED
      BY <1>0, <1>2, <2>1, <2>2, <3>1, <3>2, StopVm_Task, SMTT(30) DEF Kept
  <2>3. CASE ~ \E v \in Vm \cup VmId : StopVm(t, v)
    <3>0. /\ task[t].pc \in GuestPcs /\ app = {} /\ task[t].cur \in VmId
          /\ \A i \in VmId \ (task[t].todo \cup {task[t].cur}) : vm[i] \in {"off", "dying"}
      BY <2>1, <2>3 DEF PressButton, VmWait, KillVm, QuitVm, KillVmFails, Stopped, Down
    <3>1. CASE /\ \A i \in VmId \ {task[t].cur} : vm'[i] = vm[i]
               /\ task'[t].pc \in GuestPcs /\ task'[t].todo = task[t].todo
               /\ task'[t].cur = task[t].cur
      BY <1>0, <3>0, <3>1 DEF Stopped, Down
    <3>2. CASE /\ \A i \in VmId \ {task[t].cur} : vm'[i] = vm[i]
               /\ vm'[task[t].cur] \in {"off", "dying"}
               /\ task'[t].pc = "vms" /\ task'[t].todo = task[t].todo
      BY <1>0, <3>0, <3>2 DEF Stopped, Down
    <3>3. CASE PressButton(t)
      <4>1. \A i \in VmId \ {task[t].cur} : vm'[i] = vm[i]
        BY <2>0, <3>3 DEF PressButton
      <4> QED
        BY <1>0, <3>1, <3>3, <4>1, PressButton_Task DEF Kept
    <3>4. CASE VmWait(t)
      <4>1. UNCHANGED vm
        BY <3>4 DEF VmWait, services
      <4>2. CASE /\ ~ is_running(task[t].cur) /\ ~ Unseen(task[t].cur)
                 /\ Kept(t, "vms", task[t].todo, NoVm)
        <5>1. vm[task[t].cur] \in {"off", "dying"}
          BY <2>0, <3>0, <4>2 DEF is_running, Unseen, Answers, Mute, VmState
        <5> QED
          BY <3>2, <4>1, <4>2, <5>1 DEF Kept
      <4> QED
        BY <1>0, <1>2, <2>1, <3>1, <3>4, <4>1, <4>2, VmWait_Task DEF Kept
    <3>5. CASE KillVm(t)
      <4>1. UNCHANGED vm
        BY <3>5 DEF KillVm, services
      <4> QED
        BY <1>0, <3>1, <3>5, <4>1, KillVm_Task DEF Kept
    <3>6. CASE QuitVm(t)
      <4>1. task'[t].pc = "vms" /\ task'[t].todo = task[t].todo
        BY <1>0, <3>6, QuitVm_Task DEF Kept
      <4>2. "mute" \notin blame'
        BY <1>2
      <4>3. \/ vm' = [vm EXCEPT ![task[t].cur] = "dying"]
            \/ UNCHANGED vm /\ ~ is_running(task[t].cur) /\ ~ Unseen(task[t].cur)
        BY <3>6, <4>2 DEF QuitVm, Blame
      <4>4. vm'[task[t].cur] \in {"off", "dying"}
        BY <2>0, <3>0, <4>3 DEF is_running, Unseen, Answers, Mute, VmState
      <4> QED
        BY <2>0, <3>0, <3>2, <4>1, <4>3, <4>4
    <3>7. CASE KillVmFails(t)
      <4>1. task'[t].pc = "reapps"
        BY <1>0, <2>1, <3>7, KillVmFails_Task DEF Kept
      <4> QED
        BY <4>1 DEF Stopped
    <3> QED
      BY <2>3, <3>3, <3>4, <3>5, <3>6, <3>7
  <2> QED
    BY <2>2, <2>3
<1> QED
  BY <1>0, <1>1, <1>2, Quiet_Task, SMTT(30)

\* After the VMs a rollback stops what is exported.
LEMMA Quiet_Shares ==
  ASSUME Base, QuietInv, NEW t \in Task,
         \/ VmsStopped(t) \/ SharesDisabled(t)
         \/ \E s \in Share : DisableShare(t, s) \/ EnableShare(t, s)
  PROVE  QuietInv'
<1> USE DEF VmPcs, ShareDownPcs, SwapPcs
<1>0. /\ TypeOK /\ Alone(t) /\ Active(t) /\ UNCHANGED <<app, vm>> /\ blame \subseteq blame'
  BY Continue_Facts
     DEF Base, Continue, Reply, VmsStopped, SharesDisabled, DisableShare, EnableShare,
         Toggling, Active, Blame, services
<1>1. ExportInv'
  <2>1. CASE UNCHANGED share
    BY <1>0, <2>1 DEF QuietInv, ExportInv
  <2>2. CASE "short" \in blame'
    BY <2>2 DEF ExportInv
  <2>3. ASSUME NEW s \in Share, NEW b \in BOOLEAN,
               share' = [share EXCEPT ![s] = [on |-> b, live |-> b]]
        PROVE  ExportInv'
    BY <1>0, <2>3 DEF TypeOK, QuietInv, ExportInv
  <2> QED
    BY <2>1, <2>2, <2>3
    DEF VmsStopped, SharesDisabled, DisableShare, EnableShare, Blame, services
<1>2. ASSUME blame' \cap {"overlap", "short", "mute"} = {}, task'[t].kind = "rollback",
             task[t].kind = "rollback" => Stopped(t)
      PROVE  Stopped(t)'
  <2>5. task'[t].kind = task[t].kind
    <3>1. CASE VmsStopped(t) \/ SharesDisabled(t)
      BY <1>0, <3>1, VmsStopped_Task, SharesDisabled_Task DEF Kept, Same
    <3>2. CASE \E s \in Share : DisableShare(t, s) \/ EnableShare(t, s)
      <4>1. PICK s \in Share : DisableShare(t, s) \/ EnableShare(t, s)
        BY <3>2
      <4> QED
        BY <1>0, <4>1, DisableShare_Task, EnableShare_Task DEF Base, Kept, Same
    <3> QED
      BY <3>1, <3>2
  <2>0. /\ task[t].kind = "rollback" /\ Stopped(t)
        /\ share \in [Share -> [on : BOOLEAN, live : BOOLEAN]]
        /\ Smb \subseteq Share /\ Nfs \subseteq Share
        /\ \A s \in Share : share[s].live => share[s].on
    BY <1>0, <1>2, <2>5 DEF TypeOK, QuietInv, ExportInv, Share
  <2>1. CASE VmsStopped(t)
    <3>1. task'[t].pc = "smb" /\ task'[t].todo = {s \in Smb : share[s].on}
      BY <1>0, <2>0, <2>1, VmsStopped_Task DEF Kept
    <3>2. app = {} /\ (\A i \in VmId : Down(i)) /\ UNCHANGED share
      BY <2>0, <2>1 DEF Stopped, VmsStopped, services
    <3> QED
      BY <1>0, <2>0, <3>1, <3>2 DEF Stopped, Down
  <2>2. CASE SharesDisabled(t)
    <3>0. task[t].todo = {} /\ task[t].pc \in {"smb", "nfs"} /\ UNCHANGED share
      BY <2>2 DEF SharesDisabled, Toggling, services
    <3>1. CASE task[t].pc = "smb"
      <4>1. task'[t].pc = "nfs" /\ task'[t].todo = {s \in Nfs : share[s].on}
        BY <1>0, <2>2, <3>1, SharesDisabled_Task DEF Kept
      <4> QED
        BY <1>0, <2>0, <3>0, <3>1, <4>1 DEF Stopped, Down
    <3>2. CASE task[t].pc = "nfs"
      <4>1. task'[t].pc = "guard"
        BY <1>0, <2>2, <3>2, SharesDisabled_Task DEF Kept
      <4> QED
        BY <1>0, <2>0, <3>0, <3>2, <4>1 DEF Stopped, Down
    <3> QED
      BY <3>0, <3>1, <3>2
  <2>3. ASSUME NEW s \in Share, DisableShare(t, s) PROVE Stopped(t)'
    <3>1. /\ task'[t].pc = task[t].pc /\ task'[t].todo = task[t].todo \ {s}
          /\ share' = [share EXCEPT ![s] = [on |-> FALSE, live |-> FALSE]]
      <4>1. "short" \notin blame' /\ ListInv
        BY <1>2 DEF Base
      <4>2. blame' # blame \cup {"short", "left"}
        BY <4>1
      <4> QED
        BY <1>0, <2>3, <4>1, <4>2, DisableShare_Task
    <3>2. task[t].pc \in {"smb", "nfs"}
      BY <2>3 DEF DisableShare, Toggling
    <3>3. \A x \in Share : share'[x].live => share[x].live /\ x # s
      BY <2>0, <3>1
    <3>4. app = {} /\ \A i \in VmId : Down(i)
      BY <2>0, <3>2 DEF Stopped
    <3>5. CASE task[t].pc = "smb"
      BY <1>0, <2>0, <3>1, <3>3, <3>4, <3>5 DEF Stopped, Down
    <3>6. CASE task[t].pc = "nfs"
      BY <1>0, <2>0, <3>1, <3>3, <3>4, <3>6 DEF Stopped, Down
    <3> QED
      BY <3>2, <3>5, <3>6
  <2>4. ASSUME NEW s \in Share, EnableShare(t, s) PROVE Stopped(t)'
    <3>1. task'[t].pc \in {"renfs", "resmb"}
      BY <1>0, <2>4, EnableShare_Task DEF Kept, EnableShare
    <3> QED
      BY <3>1 DEF Stopped
  <2> QED
    BY <2>1, <2>2, <2>3, <2>4
<1> QED
  BY <1>0, <1>1, <1>2, Quiet_Task

\* The swap itself starts nothing, and after it nothing is claimed any more.
LEMMA Quiet_Rest ==
  ASSUME Base, QuietInv, NEW t \in Task,
         \/ AcquireGuard(t) \/ SwapCheck(t) \/ SafetySnapshot(t) \/ DeleteLive(t)
         \/ Recreate(t) \/ ResumeNext(t) \/ Unmount(t) \/ UnlinkKey(t) \/ Reply(t)
         \/ Dropped(t) \/ (\E i \in VmId : StartVm(t, i)) \/ Greet(t)
         \/ (\E a \in App : StartApp(t, a))
  PROVE  QuietInv'
<1> USE DEF VmPcs, ShareDownPcs, SwapPcs
<1>0. TypeOK /\ share' = share /\ blame \subseteq blame'
  BY DEF Base, AcquireGuard, SwapCheck, SafetySnapshot, DeleteLive, Recreate, ResumeNext,
         Unmount, UnlinkKey, Reply, Dropped, StartVm, Greet, StartApp, Blame, services
<1>1. ExportInv'
  BY <1>0 DEF QuietInv, ExportInv
<1>2. CASE Reply(t) \/ Dropped(t)
  <2>1. Alone(t) /\ task'[t] = Idle /\ UNCHANGED services
    BY <1>2, Over_Base DEF Reply, Dropped
  <2>2. ~ Active(t)'
    BY <2>1, IdleFacts DEF Active
  <2>3. Stopped(t)'
    BY <2>1, IdleFacts DEF Stopped
  <2> QED
    BY <1>0, <1>1, <2>1, <2>2, <2>3, Quiet_Task
<1>3. CASE ~ (Reply(t) \/ Dropped(t))
  <2>1. Alone(t) /\ Active(t)
    BY <1>3, Continue_Facts DEF Continue
  <2>2. CASE task'[t].pc \notin {"apps"} \cup VmPcs \cup ShareDownPcs
    <3>1. Stopped(t)'
      BY <2>2 DEF Stopped
    <3> QED
      BY <1>0, <1>1, <2>1, <3>1, Quiet_Task
  <2>3. CASE \E pc \in SwapPcs : Goto(t, pc) /\ task[t].pc \in SwapPcs /\ UNCHANGED services
    <3>1. PICK pc \in SwapPcs : Goto(t, pc)
      BY <2>3
    <3>2. /\ task'[t].pc = pc /\ task'[t].kind = task[t].kind /\ task[t].pc \in SwapPcs
          /\ UNCHANGED <<app, vm, share>>
      BY <1>0, <2>3, <3>1, GotoFacts DEF Kept, Same, services
    <3>3. Stopped(t) => Stopped(t)'
      BY <3>2 DEF Stopped, Down
    <3> QED
      BY <1>0, <1>1, <2>1, <3>2, <3>3, Quiet_Task
  <2>4. CASE \E out \in {"ok", "swap"} : Resume(t, out)
    BY <1>0, <2>2, <2>4, Resume_Task DEF Kept
  <2>5. CASE AcquireGuard(t) \/ SwapCheck(t) \/ SafetySnapshot(t) \/ DeleteLive(t) \/ Recreate(t)
    BY <2>3, <2>4, <2>5 DEF AcquireGuard, SwapCheck, SafetySnapshot, DeleteLive, Recreate
  <2>6. CASE ResumeNext(t)
    BY <1>0, <2>2, <2>6, ResumeNext_Task DEF Kept
  <2>7. CASE Unmount(t) \/ UnlinkKey(t)
    BY <1>0, <2>2, <2>7, Lock_Task DEF Kept
  <2>8. CASE (\E i \in VmId : StartVm(t, i)) \/ Greet(t) \/ (\E a \in App : StartApp(t, a))
    BY <1>0, <2>2, <2>8, StartVm_Task, Greet_Task, StartApp_Task DEF Kept
  <2> QED
    BY <1>3, <2>5, <2>6, <2>7, <2>8
<1> QED
  BY <1>2, <1>3

\* A request that arrives beside another is an overlap.
LEMMA Quiet_Request ==
  ASSUME Base, QuietInv, NEW t \in Task, NEW k \in Kinds, Request(t, k)
  PROVE  QuietInv'
<1>0. /\ TypeOK /\ Alone(t) /\ task'[t].pc = "deps" /\ UNCHANGED <<app, vm, share>>
      /\ blame \subseteq blame'
  BY Request_Task DEF Base, Request, Blame, services
<1>1. OneInv'
  <2>1. SUFFICES ASSUME "overlap" \notin blame', NEW o \in Task, o # t, Active(o)'
                 PROVE  FALSE
    BY <1>0 DEF QuietInv, OneInv, Active, Alone
  <2>2. Others(t) = {}
    BY <2>1 DEF Request, Blame
  <2>3. task[o].pc \notin {"idle", "done"}
    BY <1>0, <2>1 DEF Active, Alone
  <2>4. task[o] # Idle
    BY <2>3, IdleFacts
  <2> QED
    BY <2>1, <2>2, <2>3, <2>4 DEF Others
<1>2. ExportInv'
  BY <1>0 DEF QuietInv, ExportInv
<1>3. StoppedInv'
  <2>1. Stopped(t)'
    BY <1>0 DEF Stopped, VmPcs, ShareDownPcs, SwapPcs
  <2>2. \A o \in Task \ {t} : Stopped(o) => Stopped(o)'
    BY <1>0 DEF Alone, Stopped, Down
  <2> QED
    BY <1>0, <2>1, <2>2 DEF QuietInv, StoppedInv, Alone
<1> QED
  BY <1>1, <1>2, <1>3 DEF QuietInv

\* What happens beside the requests: an operator's call during a cascade is an
\* overlap, and no guest comes back by itself.
LEMMA Quiet_World ==
  ASSUME Base, QuietInv,
         \/ \E a \in App : OperatorApp(a)
         \/ \E i \in VmId : \/ OperatorVm(i) \/ MonitorHangs(i) \/ MonitorRecovers(i)
                            \/ GuestStops(i)
         \/ Reopen
  PROVE  QuietInv'
<1> USE DEF VmPcs, ShareDownPcs, SwapPcs
<1>0. TypeOK /\ UNCHANGED <<share, task>> /\ blame \subseteq blame'
  BY DEF Base, OperatorApp, OperatorVm, MonitorHangs, MonitorRecovers, GuestStops, Reopen,
         Event, Blame, services
<1>1. OneInv' /\ ExportInv'
  BY <1>0 DEF QuietInv, OneInv, ExportInv, Active
<1>2. CASE (\E a \in App : OperatorApp(a)) \/ \E i \in VmId : OperatorVm(i)
  <2>1. "overlap" \in blame' \/ ~ Cascading
    BY <1>2 DEF OperatorApp, OperatorVm, Blame
  <2>2. CASE ~ Cascading
    <3>1. \A t \in Task : task'[t].pc \in {"idle", "done"}
      BY <1>0, <2>2 DEF Cascading
    <3>2. \A t \in Task : Stopped(t)'
      BY <3>1 DEF Stopped
    <3> QED
      BY <1>1, <3>2 DEF QuietInv, StoppedInv
  <2>3. CASE "overlap" \in blame'
    BY <1>1, <2>3 DEF QuietInv, StoppedInv
  <2> QED
    BY <2>1, <2>2, <2>3
<1>3. CASE Reopen \/ \E i \in VmId : MonitorHangs(i) \/ MonitorRecovers(i) \/ GuestStops(i)
  <2>1. app' = app /\ \A i \in VmId : vm[i] \in {"off", "dying"} => vm'[i] \in {"off", "dying"}
    BY <1>0, <1>3 DEF TypeOK, Reopen, MonitorHangs, MonitorRecovers, GuestStops, Event,
                      is_running, Answers, Mute, services
  <2>2. \A t \in Task : Stopped(t) => Stopped(t)'
    BY <1>0, <2>1 DEF Stopped, Down
  <2> QED
    BY <1>0, <1>1, <2>2 DEF QuietInv, StoppedInv
<1> QED
  BY <1>2, <1>3

\* Every step keeps the account of what is stopped.
LEMMA Quiet_Step ==
  ASSUME Base, QuietInv, [Next]_vars
  PROVE  QuietInv'
<1>1. CASE UNCHANGED vars
  BY <1>1 DEF vars, services, QuietInv, OneInv, ExportInv, StoppedInv, Stopped, Down, Active
<1>2. ASSUME NEW t \in Task, Continue(t) PROVE QuietInv'
  BY <1>2, Quiet_Apps, Quiet_Vms, Quiet_Shares, Quiet_Rest DEF Continue
<1>3. ASSUME NEW t \in Task, Dropped(t) PROVE QuietInv'
  BY <1>3, Quiet_Rest
<1> QED
  BY <1>1, <1>2, <1>3, Quiet_Request, Quiet_World DEF Next

-----------------------------------------------------------------------------
(* Everything comes back.                                                    *)

\* What a cascade or an operator does to the wishes of the operator is never about
\* a share; a cascade only ever drops one.
LEMMA Wants ==
  ASSUME Base, Next
  PROVE  /\ want' \cap Share = want \cap Share
         /\ \A t \in Task : Continue(t) => want' \subseteq want
<1>1. ASSUME NEW t \in Task, NEW a \in App, StopApp(t, a) \/ StartApp(t, a)
      PROVE  \E x \in App : want' \in {want, want \ {x}}
  BY <1>1 DEF StopApp, StartApp
<1>2. ASSUME NEW t \in Task, NEW v \in Vm \cup VmId, StopVm(t, v)
      PROVE  want' = want
  BY <1>2 DEF StopVm
<1>3. ASSUME NEW t \in Task, PressButton(t) \/ QuitVm(t)
      PROVE  want' = want \/ \E x \in VmId : want' = want \ {x}
  BY <1>3 DEF PressButton, QuitVm, Base, KindInv
<1>4. ASSUME NEW t \in Task, \/ LockDeps(t) \/ RollbackDeps(t) \/ StopAppFails(t)
                             \/ AppsStopped(t) \/ VmWait(t) \/ KillVm(t) \/ KillVmFails(t)
                             \/ Greet(t) \/ VmsStopped(t) \/ SharesDisabled(t) \/ AcquireGuard(t) \/ SwapCheck(t)
                             \/ SafetySnapshot(t) \/ DeleteLive(t) \/ Recreate(t)
                             \/ ResumeNext(t) \/ Unmount(t) \/ UnlinkKey(t) \/ Reply(t)
                             \/ Dropped(t)
      PROVE  want' = want
  BY <1>4 DEF LockDeps, RollbackDeps, StopAppFails, AppsStopped, VmWait, KillVm, KillVmFails,
              Greet, VmsStopped, SharesDisabled, AcquireGuard, SwapCheck, SafetySnapshot,
              DeleteLive, Recreate, ResumeNext, Unmount, UnlinkKey, Reply, Dropped
<1>5. ASSUME NEW t \in Task, NEW s \in Share, DisableShare(t, s) \/ EnableShare(t, s)
      PROVE  want' = want
  BY <1>5 DEF DisableShare, EnableShare
<1>6. ASSUME NEW t \in Task, NEW i \in VmId, StartVm(t, i) PROVE want' = want
  BY <1>6 DEF StartVm
<1>7. ASSUME NEW t \in Task, Continue(t)
      PROVE  want' = want \/ \E x \in App \cup VmId : want' = want \ {x}
  BY <1>1, <1>2, <1>3, <1>4, <1>5, <1>6, <1>7 DEF Continue
<1>8. \/ want' = want
      \/ \E x \in App \cup VmId : want' \in {want \ {x}, want \cup {x}}
  <2>1. ASSUME NEW a \in App, OperatorApp(a) PROVE want' \in {want \ {a}, want \cup {a}}
    BY <2>1 DEF OperatorApp
  <2>2. ASSUME NEW i \in VmId, \/ OperatorVm(i) \/ MonitorHangs(i) \/ MonitorRecovers(i)
                              \/ GuestStops(i)
        PROVE  want' \in {want, want \ {i}, want \cup {i}}
    BY <2>2 DEF OperatorVm, MonitorHangs, MonitorRecovers, GuestStops
  <2>3. CASE Reopen
    BY <2>3 DEF Reopen
  <2>4. ASSUME NEW t \in Task, NEW k \in Kinds, Request(t, k) PROVE want' = want
    BY <2>4 DEF Request
  <2> QED
    BY <1>4, <1>7, <2>1, <2>2, <2>3, <2>4 DEF Next
<1> QED
  BY <1>7, <1>8

\* The shares of the lists and of the memory of a request are wanted.
LEMMA Share_Task ==
  ASSUME Base, ShareInv, NEW t \in Task, Alone(t), want' \cap Share = want \cap Share,
         \A s \in Share : share'[s].on => share[s].on \/ s \in want,
         task'[t].smb \cup task'[t].nfs \subseteq want,
         task'[t].pc \in {"smb", "nfs", "renfs", "resmb"} => task'[t].todo \subseteq want,
         Base'
  PROVE  ShareInv'
<1>1. \A o \in Task : /\ task'[o].smb \cup task'[o].nfs \subseteq Share
                      /\ task'[o].pc \in {"smb", "nfs", "renfs", "resmb"} =>
                            task'[o].todo \subseteq Share
  BY DEF Base, TypeOK, ListInv, Record, Share
<1>2. \A o \in Task : /\ task'[o].smb \cup task'[o].nfs \subseteq want
                      /\ task'[o].pc \in {"smb", "nfs", "renfs", "resmb"} =>
                            task'[o].todo \subseteq want
  BY DEF ShareInv, Alone
<1>3. \A s \in Share : share'[s].on => s \in want
  BY DEF ShareInv
<1> QED
  BY <1>1, <1>2, <1>3 DEF ShareInv

\* Only what was enabled is disabled, and only that is enabled again.
LEMMA Share_Step ==
  ASSUME Base, ShareInv, [Next]_vars
  PROVE  ShareInv'
<1>0. TypeOK /\ ListInv /\ Base'
  BY Base_Step DEF Base
<1>1. CASE UNCHANGED vars
  BY <1>1 DEF vars, services, ShareInv
<1> SUFFICES ASSUME Next PROVE ShareInv'
  BY <1>1
<1>2. want' \cap Share = want \cap Share
  BY Wants
<1>3. ASSUME NEW t \in Task, NEW pc, NEW todo, NEW cur, Kept(t, pc, todo, cur),
             UNCHANGED share, pc \in {"smb", "nfs", "renfs", "resmb"} => todo \subseteq want
      PROVE  ShareInv'
  <2>1. task'[t].smb \cup task'[t].nfs \subseteq want
    BY <1>3 DEF ShareInv, Kept, Same
  <2> QED
    BY <1>0, <1>2, <1>3, <2>1, Share_Task DEF Kept
<1>4. ASSUME NEW t \in Task, Alone(t), UNCHANGED share, task'[t].pc \in {"deps", "apps", "idle"},
             task'[t].smb \subseteq task[t].smb, task'[t].nfs \subseteq task[t].nfs
      PROVE  ShareInv'
  <2>1. task'[t].smb \cup task'[t].nfs \subseteq want
    BY <1>4 DEF ShareInv
  <2> QED
    BY <1>0, <1>2, <1>4, <2>1, Share_Task
<1>5. ASSUME NEW t \in Task, NEW k \in Kinds, Request(t, k) PROVE ShareInv'
  BY <1>0, <1>4, <1>5, Request_Task DEF Request, services
<1>6. ASSUME NEW t \in Task, Dropped(t) \/ Reply(t) PROVE ShareInv'
  BY <1>4, <1>6, Over_Base, IdleFacts DEF Dropped, Reply, services
<1>7. ASSUME NEW t \in Task, LockDeps(t) \/ RollbackDeps(t) PROVE ShareInv'
  <2>1. UNCHANGED share
    BY <1>7 DEF LockDeps, RollbackDeps, services
  <2>2. \/ Kept(t, "done", task[t].todo, task[t].cur)
        \/ /\ Alone(t) /\ task'[t].pc = "apps"
           /\ task'[t].smb = task[t].smb /\ task'[t].nfs = task[t].nfs
    BY <1>0, <1>7, LockDeps_Task, RollbackDeps_Task
  <2> QED
    BY <1>3, <1>4, <2>1, <2>2
<1>8. ASSUME NEW t \in Task, NEW a \in App, StopApp(t, a) \/ StartApp(t, a) PROVE ShareInv'
  BY <1>0, <1>3, <1>8, StopApp_Task, StartApp_Task DEF StopApp, StartApp
<1>9. ASSUME NEW t \in Task, StopAppFails(t) \/ AppsStopped(t) PROVE ShareInv'
  BY <1>0, <1>3, <1>9, StopAppFails_Task, AppsStopped_Task DEF StopAppFails, AppsStopped, services
<1>10. ASSUME NEW t \in Task, NEW v \in Vm \cup VmId, StopVm(t, v) PROVE ShareInv'
  <2>1. UNCHANGED share
    BY <1>10 DEF StopVm, services
  <2> QED
    BY <1>0, <1>3, <1>10, <2>1, StopVm_Task
<1>11. ASSUME NEW t \in Task, \/ PressButton(t) \/ VmWait(t) \/ KillVm(t) \/ QuitVm(t)
                              \/ KillVmFails(t) \/ Greet(t)
       PROVE  ShareInv'
  <2>1. UNCHANGED share
    BY <1>11 DEF PressButton, VmWait, KillVm, QuitVm, KillVmFails, Greet, services
  <2> QED
    BY <1>0, <1>3, <1>11, <2>1, PressButton_Task, VmWait_Task, KillVm_Task, QuitVm_Task,
       KillVmFails_Task, Greet_Task
<1>12. ASSUME NEW t \in Task, VmsStopped(t) \/ SharesDisabled(t) PROVE ShareInv'
  <2>1. UNCHANGED share
    BY <1>12 DEF VmsStopped, SharesDisabled, services
  <2>2. {s \in Smb : share[s].on} \subseteq want /\ {s \in Nfs : share[s].on} \subseteq want
    BY DEF ShareInv, Share
  <2> QED
    BY <1>0, <1>3, <1>12, <2>1, <2>2, VmsStopped_Task, SharesDisabled_Task
<1>13. ASSUME NEW t \in Task, NEW s \in Share, DisableShare(t, s) PROVE ShareInv'
  <2>1. s \in task[t].todo /\ task[t].todo \subseteq want
    BY <1>13 DEF DisableShare, Toggling, ShareInv
  <2>2. /\ Alone(t) /\ task'[t].smb \subseteq task[t].smb \cup {s}
        /\ task'[t].nfs \subseteq task[t].nfs \cup {s} /\ task'[t].todo = task[t].todo \ {s}
    BY <1>0, <1>13, DisableShare_Task DEF Kept, Same
  <2>3. \A x \in Share : share'[x].on => share[x].on
    BY <1>0, <1>13 DEF DisableShare, TypeOK
  <2>4. task'[t].smb \cup task'[t].nfs \subseteq want
    BY <2>1, <2>2 DEF ShareInv
  <2> QED
    BY <1>0, <1>2, <2>1, <2>2, <2>3, <2>4, Share_Task
<1>14. ASSUME NEW t \in Task, NEW s \in Share, EnableShare(t, s) PROVE ShareInv'
  <2>1. s \in task[t].todo /\ task[t].todo \subseteq want
    BY <1>14 DEF EnableShare, ShareInv
  <2>2. Kept(t, task[t].pc, task[t].todo \ {s}, task[t].cur)
    BY <1>0, <1>14, EnableShare_Task
  <2>3. \A x \in Share : share'[x].on => share[x].on \/ x = s
    BY <1>0, <1>14 DEF EnableShare, TypeOK
  <2>4. task'[t].smb \cup task'[t].nfs \subseteq want /\ task'[t].todo \subseteq want
    BY <2>1, <2>2 DEF ShareInv, Kept, Same
  <2>5. Alone(t)
    BY <2>2 DEF Kept
  <2> QED
    BY <1>0, <1>2, <2>1, <2>3, <2>4, <2>5, Share_Task
<1>15. ASSUME NEW t \in Task, \/ AcquireGuard(t) \/ SwapCheck(t) \/ SafetySnapshot(t)
                              \/ DeleteLive(t) \/ Recreate(t)
       PROVE  ShareInv'
  <2>1. UNCHANGED share
    BY <1>15 DEF AcquireGuard, SwapCheck, SafetySnapshot, DeleteLive, Recreate, services
  <2>2. \/ \E pc \in {"check", "safety", "delete", "recreate"} : Goto(t, pc)
        \/ \E out \in {"ok", "swap"} : Resume(t, out)
    BY <1>15 DEF AcquireGuard, SwapCheck, SafetySnapshot, DeleteLive, Recreate
  <2>3. task[t].nfs \subseteq want
    BY DEF ShareInv
  <2>4. \/ \E pc \in {"check", "safety", "delete", "recreate"} :
              Kept(t, pc, task[t].todo, task[t].cur)
        \/ Kept(t, "renfs", task[t].nfs, task[t].cur)
    BY <1>0, <2>2, GotoFacts, Resume_Task
  <2> QED
    BY <1>3, <2>1, <2>3, <2>4
<1>16. ASSUME NEW t \in Task, ResumeNext(t) PROVE ShareInv'
  <2>1. UNCHANGED share /\ task[t].smb \subseteq want
    BY <1>16 DEF ResumeNext, services, ShareInv
  <2> QED
    BY <1>0, <1>3, <1>16, <2>1, ResumeNext_Task
<1>17. ASSUME NEW t \in Task, NEW i \in VmId, StartVm(t, i) PROVE ShareInv'
  BY <1>0, <1>3, <1>17, StartVm_Task DEF StartVm
<1>18. ASSUME NEW t \in Task, Unmount(t) \/ UnlinkKey(t) PROVE ShareInv'
  <2>1. UNCHANGED share
    BY <1>18 DEF Unmount, UnlinkKey, services
  <2> QED
    BY <1>0, <1>3, <1>18, <2>1, Lock_Task
<1>19. CASE UNCHANGED <<share, task>>
  BY <1>0, <1>2, <1>19 DEF ShareInv, Base, TypeOK, ListInv, Record, Share
<1>20. CASE \/ \E a \in App : OperatorApp(a)
            \/ \E i \in VmId : \/ OperatorVm(i) \/ MonitorHangs(i) \/ MonitorRecovers(i)
                               \/ GuestStops(i)
            \/ Reopen
  BY <1>19, <1>20 DEF OperatorApp, OperatorVm, MonitorHangs, MonitorRecovers, GuestStops,
                      Reopen, Event, services
<1> QED
  BY <1>5, <1>6, <1>7, <1>8, <1>9, <1>10, <1>11, <1>12, <1>13, <1>14, <1>15, <1>16,
     <1>17, <1>18, <1>20 DEF Next, Continue

\* The three debts of a rollback.
Owing(t) == task[t].pc \in {"apps"} \cup VmPcs \cup ShareDownPcs \cup ResumePcs

\* A VM after a step of a request: up, or the business of the request, or as it was.
VmStep(t, i) ==
    \/ vm'[i] \in {"on", "stuck"}
    \/ vm'[i] \in {"asked", "deaf"} /\ Asks(t, i)'
    \/ vm'[i] \in {"off", "dying"} /\ OwesVm(t, i)'
    \/ /\ vm'[i] = vm[i]
       /\ Asks(t, i) /\ vm[i] \in {"asked", "deaf"} => Asks(t, i)'
       /\ OwesVm(t, i) /\ vm[i] \in {"off", "dying"} => OwesVm(t, i)'

\* A step of a request that hands nothing down.
LEMMA Back_Task ==
  ASSUME BackInv, NEW t \in Task, Alone(t), want' \subseteq want, blame \subseteq blame',
         blame' \cap {"left", "mute"} = {} =>
           /\ \A a \in App \cap want' :
                 a \in app \/ OwesApp(t, a) => a \in app' \/ OwesApp(t, a)'
           /\ \A i \in VmId \cap want' : VmStep(t, i)
           /\ \A s \in Share : share[s].live = share[s].on => share'[s].live = share'[s].on
           /\ \A s \in Share \cap want' :
                 share[s].on \/ OwesShare(t, s) => share'[s].on \/ OwesShare(t, s)'
  PROVE  BackInv'
<1> SUFFICES ASSUME blame' \cap {"left", "mute"} = {}
             PROVE  BackInv'
  BY DEF BackInv
<1>0. blame \cap {"left", "mute"} = {}
  OBVIOUS
<1>1. ASSUME NEW a \in App \cap want' PROVE a \in app' \/ \E o \in Task : OwesApp(o, a)'
  <2>1. CASE a \in app \/ OwesApp(t, a)
    BY <1>1, <2>1
  <2>2. ASSUME NEW o \in Task, o # t, OwesApp(o, a) PROVE OwesApp(o, a)'
    BY <2>2 DEF OwesApp, Alone
  <2> QED
    BY <1>0, <1>1, <2>1, <2>2 DEF BackInv
<1>2. ASSUME NEW i \in VmId \cap want'
      PROVE  \/ vm'[i] \in {"on", "stuck"}
             \/ vm'[i] \in {"asked", "deaf"} /\ \E o \in Task : Asks(o, i)'
             \/ vm'[i] \in {"off", "dying"} /\ \E o \in Task : OwesVm(o, i)'
  <2>1. VmStep(t, i)
    BY <1>2
  <2>2. CASE \/ vm'[i] \in {"on", "stuck"}
             \/ vm'[i] \in {"asked", "deaf"} /\ Asks(t, i)'
             \/ vm'[i] \in {"off", "dying"} /\ OwesVm(t, i)'
    BY <2>2
  <2>3. CASE /\ vm'[i] = vm[i]
             /\ Asks(t, i) /\ vm[i] \in {"asked", "deaf"} => Asks(t, i)'
             /\ OwesVm(t, i) /\ vm[i] \in {"off", "dying"} => OwesVm(t, i)'
    <3>1. \A o \in Task \ {t} : Asks(o, i) => Asks(o, i)'
      BY DEF Asks, Alone
    <3>2. \A o \in Task \ {t} : OwesVm(o, i) => OwesVm(o, i)'
      BY DEF OwesVm, Alone
    <3>3. \/ vm[i] \in {"on", "stuck"}
          \/ vm[i] \in {"asked", "deaf"} /\ \E o \in Task : Asks(o, i)
          \/ vm[i] \in {"off", "dying"} /\ \E o \in Task : OwesVm(o, i)
      BY <1>0, <1>2 DEF BackInv
    <3> QED
      BY <2>3, <3>1, <3>2, <3>3
  <2> QED
    BY <2>1, <2>2, <2>3 DEF VmStep
<1>3. \A s \in Share : share'[s].live = share'[s].on
  BY <1>0 DEF BackInv
<1>4. ASSUME NEW s \in Share \cap want'
      PROVE  share'[s].on \/ \E o \in Task : OwesShare(o, s)'
  <2>1. CASE share[s].on \/ OwesShare(t, s)
    BY <1>4, <2>1
  <2>2. ASSUME NEW o \in Task, o # t, OwesShare(o, s) PROVE OwesShare(o, s)'
    BY <2>2 DEF OwesShare, Alone
  <2> QED
    BY <1>0, <1>4, <2>1, <2>2 DEF BackInv
<1> QED
  BY <1>1, <1>2, <1>3, <1>4 DEF BackInv

\* A step that touches no service and keeps what the request owes.
LEMMA Back_Kept ==
  ASSUME BackInv, NEW t \in Task, Alone(t), UNCHANGED <<services, want>>, blame \subseteq blame',
         blame' \cap {"left", "mute"} = {} =>
           /\ \A a \in App \cap want : OwesApp(t, a) => OwesApp(t, a)'
           /\ \A i \in VmId \cap want : /\ Asks(t, i) /\ vm[i] \in {"asked", "deaf"} => Asks(t, i)'
                                        /\ OwesVm(t, i) => OwesVm(t, i)'
           /\ \A s \in Share : OwesShare(t, s) => OwesShare(t, s)'
  PROVE  BackInv'
<1>1. UNCHANGED <<app, vm, share>>
  BY DEF services
<1>2. ASSUME blame' \cap {"left", "mute"} = {}, NEW i \in VmId \cap want' PROVE VmStep(t, i)
  <2>0. i \in VmId \cap want
    BY <1>2
  <2>1. /\ Asks(t, i) /\ vm[i] \in {"asked", "deaf"} => Asks(t, i)'
        /\ OwesVm(t, i) => OwesVm(t, i)'
    BY <1>2, <2>0
  <2> QED
    BY <1>1, <2>1 DEF VmStep
<1> QED
  BY <1>1, <1>2, Back_Task

\* A request that owes nothing, and one that never resumes.
LEMMA OwesNothing ==
  ASSUME NEW t, ~ Owing(t) \/ (task[t].kind = "lock" /\ task[t].pc \notin ShareDownPcs \cup ResumePcs)
  PROVE  /\ \A a : ~ OwesApp(t, a)
         /\ \A i : ~ OwesVm(t, i) /\ ~ Asks(t, i)
         /\ \A s : ~ OwesShare(t, s)
  BY DEF Owing, OwesApp, OwesVm, Asks, OwesShare, VmPcs, ShareDownPcs, SwapPcs, ResumePcs

\* Listing, and stopping apps.
LEMMA Back_Apps ==
  ASSUME Base, BackInv, NEW t \in Task, want' \subseteq want,
         \/ LockDeps(t) \/ RollbackDeps(t) \/ StopAppFails(t) \/ AppsStopped(t)
         \/ \E a \in App : StopApp(t, a)
  PROVE  BackInv'
<1> USE DEF VmPcs, ShareDownPcs, SwapPcs, ResumePcs
<1>0. TypeOK /\ blame \subseteq blame' /\ UNCHANGED <<vm, share>>
  BY DEF Base, LockDeps, RollbackDeps, StopAppFails, AppsStopped, StopApp, Blame, services
<1>1. CASE LockDeps(t) \/ RollbackDeps(t)
  <2>1. ~ Owing(t) /\ UNCHANGED <<services, want>>
    BY <1>1 DEF Owing, LockDeps, RollbackDeps
  <2>2. Alone(t)
    BY <1>1, Continue_Facts DEF Continue
  <2> QED
    BY <1>0, <2>1, <2>2, OwesNothing, Back_Kept
<1>2. CASE StopAppFails(t)
  <2>1. Alone(t) /\ task[t].pc = "apps" /\ UNCHANGED <<services, want>>
    BY <1>0, <1>2, StopAppFails_Task DEF Kept, StopAppFails
  <2>2. blame' \cap {"left", "mute"} = {} => (task[t].apps \ task[t].todo) \cap want = {}
    BY <1>2 DEF StopAppFails, Blame
  <2>3. \A i : ~ OwesVm(t, i) /\ ~ Asks(t, i)
    BY <2>1 DEF OwesVm, Asks
  <2>4. \A s : ~ OwesShare(t, s)
    BY <2>1 DEF OwesShare
  <2>5. blame' \cap {"left", "mute"} = {} => \A a \in App \cap want : ~ OwesApp(t, a)
    BY <2>1, <2>2 DEF OwesApp
  <2> QED
    BY <1>0, <2>1, <2>3, <2>4, <2>5, Back_Kept
<1>3. CASE AppsStopped(t)
  <2>1. /\ Kept(t, "vms", task[t].ids, task[t].cur) /\ task[t].pc = "apps"
        /\ task[t].todo = {} /\ UNCHANGED <<services, want>>
    BY <1>0, <1>3, AppsStopped_Task DEF AppsStopped
  <2>2. \A i : ~ OwesVm(t, i) /\ ~ Asks(t, i)
    BY <2>1 DEF OwesVm, Asks
  <2>3. \A s : ~ OwesShare(t, s)
    BY <2>1 DEF OwesShare
  <2>4. \A a : OwesApp(t, a) => OwesApp(t, a)'
    BY <2>1 DEF OwesApp, Kept, Same
  <2>5. Alone(t)
    BY <2>1 DEF Kept
  <2> QED
    BY <1>0, <2>1, <2>2, <2>3, <2>4, <2>5, Back_Kept
<1>4. ASSUME NEW x \in App, StopApp(t, x) PROVE BackInv'
  <2>1. /\ Kept(t, "apps", task[t].todo \ {x}, task[t].cur) /\ task[t].pc = "apps"
        /\ x \in task[t].todo /\ app' = app \ {x}
        /\ want' = IF task[t].kind = "lock" THEN want \ {x} ELSE want
    BY <1>0, <1>4, StopApp_Task DEF StopApp
  <2>2. x \in task[t].apps /\ (task[t].kind # "lock" => task[t].kind = "rollback")
    BY <1>0, <2>1, TaskFacts DEF Base, ListInv
  <2>3. Alone(t)
    BY <2>1 DEF Kept
  <2>4. \A i : ~ OwesVm(t, i) /\ ~ Asks(t, i)
    BY <2>1 DEF OwesVm, Asks
  <2>5. \A s : ~ OwesShare(t, s)
    BY <2>1 DEF OwesShare
  <2>6. ASSUME NEW a \in App \cap want', a \in app \/ OwesApp(t, a)
        PROVE  a \in app' \/ OwesApp(t, a)'
    <3>1. CASE a = x
      BY <2>1, <2>2, <2>6, <3>1 DEF OwesApp, Kept, Same
    <3>2. CASE a # x
      BY <2>1, <2>6, <3>2 DEF OwesApp, Kept, Same
    <3> QED
      BY <3>1, <3>2
  <2>7. \A i \in VmId : VmStep(t, i)
    BY <1>0, <2>4 DEF VmStep
  <2> QED
    BY <1>0, <2>3, <2>5, <2>6, <2>7, Back_Task
<1> QED
  BY <1>1, <1>2, <1>3, <1>4

\* Stopping VMs: one that is asked is waited for, one that is killed is remembered.
LEMMA Back_Vms ==
  ASSUME Base, BackInv, NEW t \in Task, want' \subseteq want,
         \/ \E v \in Vm \cup VmId : StopVm(t, v)
         \/ PressButton(t) \/ VmWait(t) \/ KillVm(t) \/ QuitVm(t) \/ KillVmFails(t)
         \/ VmsStopped(t)
  PROVE  BackInv'
<1> USE DEF VmPcs, ShareDownPcs, SwapPcs, ResumePcs
<1>0. /\ TypeOK /\ blame \subseteq blame' /\ UNCHANGED <<app, share>> /\ Alone(t)
      /\ task[t].pc \in VmPcs /\ task[t].kind \in Kinds
      /\ task[t].pc \in GuestPcs => task[t].cur \in task[t].ids \ task[t].todo
      /\ task[t].kind = "rollback" => task[t].ids \subseteq VmId
  <2>1. TypeOK /\ blame \subseteq blame' /\ UNCHANGED <<app, share>> /\ task[t].pc \in VmPcs
    BY DEF Base, StopVm, PressButton, VmWait, KillVm, QuitVm, KillVmFails, VmsStopped, Blame,
           services
  <2>2. Alone(t)
    BY Continue_Facts DEF Continue
  <2>3. task[t].kind \in Kinds
    BY <2>1, TaskFacts
  <2>4. task[t].pc \in GuestPcs => task[t].cur \in task[t].ids \ task[t].todo
    BY DEF Base, KindInv
  <2> QED
    BY <2>1, <2>2, <2>3, <2>4, RollbackGuest, SMTT(30)
<1>1. /\ \A s : ~ OwesShare(t, s)
      /\ \A a : OwesApp(t, a) <=> task[t].kind = "rollback" /\ a \in task[t].apps
      /\ \A i : OwesVm(t, i) <=> task[t].kind = "rollback" /\ i \in task[t].ids \ task[t].todo
  <2>1. \A s : ~ OwesShare(t, s)
    BY <1>0 DEF OwesShare
  <2>2. \A a : OwesApp(t, a) <=> task[t].kind = "rollback" /\ a \in task[t].apps
    BY <1>0 DEF OwesApp
  <2>3. \A i : OwesVm(t, i) <=> task[t].kind = "rollback" /\ i \in task[t].ids \ task[t].todo
    BY <1>0 DEF OwesVm
  <2> QED
    BY <2>1, <2>2, <2>3
<1>2. ASSUME NEW pc \in VmPcs, NEW todo, NEW cur, Kept(t, pc, todo, cur),
             blame' \cap {"left", "mute"} = {} => \A i \in VmId \cap want' : VmStep(t, i)
      PROVE  BackInv'
  <2>1. \A a : OwesApp(t, a) => OwesApp(t, a)'
    BY <1>1, <1>2 DEF OwesApp, Kept, Same
  <2> QED
    BY <1>0, <1>1, <1>2, <2>1, Back_Task
<1>3. ASSUME NEW v \in Vm \cup VmId, StopVm(t, v) PROVE BackInv'
  <2>0. /\ task[t].pc = "vms" /\ v \in task[t].todo /\ v \in task[t].ids
        /\ UNCHANGED vm /\ \A i : ~ Asks(t, i)
    BY <1>3 DEF StopVm, Asks, Base, ListInv, services
  <2>a. PICK pc \in VmPcs : \E cur : Kept(t, pc, task[t].todo \ {v}, cur)
    BY <1>0, <1>3, StopVm_Task
  <2>1. PICK cur : Kept(t, pc, task[t].todo \ {v}, cur)
    BY <2>a
  <2>2. \A i : OwesVm(t, i) => OwesVm(t, i)'
    BY <1>1, <2>1 DEF OwesVm, Kept, Same
  <2>3. \A i \in VmId : VmStep(t, i)
    BY <2>0, <2>2 DEF VmStep
  <2> QED
    BY <1>2, <2>1, <2>3
<1>4. CASE PressButton(t) \/ VmWait(t) \/ KillVm(t)
  <2>0. task[t].pc \in GuestPcs
    BY <1>4 DEF PressButton, VmWait, KillVm
  <2>1. ASSUME NEW pc \in GuestPcs, Kept(t, pc, task[t].todo, task[t].cur), UNCHANGED vm
        PROVE  BackInv'
    <3>1. \A i : OwesVm(t, i) => OwesVm(t, i)'
      BY <1>1, <2>1 DEF OwesVm, Kept, Same
    <3>2. \A i : Asks(t, i) => Asks(t, i)'
      BY <2>1 DEF Asks, Kept, Same
    <3>3. \A i \in VmId : VmStep(t, i)
      BY <2>1, <3>1, <3>2 DEF VmStep
    <3> QED
      BY <1>2, <2>1, <3>3
  <2>2. CASE KillVm(t)
    BY <1>0, <2>1, <2>2, KillVm_Task DEF KillVm, services
  <2>3. CASE VmWait(t)
    <3>0. UNCHANGED vm
      BY <2>3 DEF VmWait, services
    <3>1. CASE /\ ~ is_running(Guest(t, task[t].cur)) /\ Kept(t, "vms", task[t].todo, NoVm)
               /\ "mute" \notin blame' => ~ Unseen(Guest(t, task[t].cur))
      <4>1. \A i : OwesVm(t, i) => OwesVm(t, i)'
        BY <1>1, <3>1 DEF OwesVm, Kept, Same
      <4>2. "mute" \notin blame' => \A i \in VmId : Asks(t, i) => vm[i] \notin {"asked", "deaf"}
        BY <3>1, RollbackGuest DEF Asks, is_running, Answers, Unseen, Mute
      <4>3. "mute" \notin blame' => \A i \in VmId : VmStep(t, i)
        BY <3>0, <4>1, <4>2 DEF VmStep
      <4> QED
        BY <1>2, <3>1, <4>3
    <3> QED
      BY <1>0, <2>1, <2>3, <3>0, <3>1, VmWait_Task
  <2>4. CASE PressButton(t)
    <3>1. CASE /\ Kept(t, "wait", task[t].todo, task[t].cur)
               /\ vm' = [vm EXCEPT ![task[t].cur] = "asked"]
               /\ want' = IF task[t].kind = "lock" THEN want \ {task[t].cur} ELSE want
      <4>1. \A i : OwesVm(t, i) => OwesVm(t, i)'
        BY <1>1, <3>1 DEF OwesVm, Kept, Same
      <4>2. \A i : Asks(t, i) => Asks(t, i)'
        BY <3>1 DEF Asks, Kept, Same
      <4>3. \A i \in VmId : i # task[t].cur => VmStep(t, i)
        BY <1>0, <3>1, <4>1, <4>2 DEF VmStep, TypeOK
      <4>4. ASSUME NEW i \in VmId, i = task[t].cur, task[t].kind = "rollback" PROVE VmStep(t, i)
        BY <1>0, <2>0, <3>1, <4>2, <4>4 DEF VmStep, TypeOK, Asks
      <4> QED
        BY <1>0, <1>2, <3>1, <4>3, <4>4
    <3> QED
      BY <1>0, <2>1, <2>4, <3>1, PressButton_Task
  <2> QED
    BY <1>4, <2>2, <2>3, <2>4
<1>5. CASE QuitVm(t)
  <2>0. /\ task[t].pc = "quit" /\ task[t].cur \in VmId /\ task[t].cur \in task[t].ids \ task[t].todo
        /\ want' = IF task[t].kind = "lock" THEN want \ {task[t].cur} ELSE want
        /\ Kept(t, "vms", task[t].todo, NoVm)
    BY <1>0, <1>5, QuitVm_Task DEF QuitVm, Base, KindInv
  <2>1. \A i : OwesVm(t, i) => OwesVm(t, i)'
    BY <1>1, <2>0 DEF OwesVm, Kept, Same
  <2>2. \A i \in VmId : i # task[t].cur => VmStep(t, i)
    <3>1. \A i \in VmId : i # task[t].cur => vm'[i] = vm[i]
      BY <1>0, <1>5 DEF QuitVm, TypeOK
    <3> QED
      BY <2>1, <3>1 DEF VmStep, Asks
  <2>3. "mute" \notin blame' => \/ vm'[task[t].cur] = "dying"
                               \/ /\ vm'[task[t].cur] = vm[task[t].cur]
                                  /\ vm[task[t].cur] \notin {"asked", "deaf"}
    BY <1>0, <1>5, <2>0 DEF QuitVm, TypeOK, Blame, is_running, Unseen, Answers, Mute
  <2>4. task[t].kind = "rollback" => OwesVm(t, task[t].cur)
    BY <1>1, <2>0
  <2>5. ASSUME NEW i \in VmId, i = task[t].cur, task[t].kind = "rollback", "mute" \notin blame'
        PROVE  VmStep(t, i)
    BY <2>1, <2>3, <2>4, <2>5 DEF VmStep
  <2>6. "mute" \notin blame' => \A i \in VmId \cap want' : VmStep(t, i)
    BY <1>0, <2>0, <2>2, <2>5
  <2> QED
    BY <1>2, <2>0, <2>6
<1>6. CASE KillVmFails(t)
  <2>0. UNCHANGED <<services, want>> /\ task[t].pc = "kill"
    BY <1>6 DEF KillVmFails
  <2>1. CASE task[t].kind = "lock"
    <3>1. \A i : ~ Asks(t, i)
      BY <2>1 DEF Asks
    <3> QED
      BY <1>0, <1>1, <2>0, <2>1, <3>1, Back_Kept
  <2>2. CASE task[t].kind = "rollback"
    <3>1. Kept(t, "reapps", task[t].apps, NoVm)
      BY <1>0, <1>6, <2>2, KillVmFails_Task
    <3>2. blame' \cap {"left", "mute"} = {} => (task[t].ids \ task[t].todo) \cap want = {}
      BY <1>6, <2>2 DEF KillVmFails, Blame
    <3>3. \A a : OwesApp(t, a) => OwesApp(t, a)'
      BY <1>1, <3>1 DEF OwesApp, Kept, Same
    <3>4. blame' \cap {"left", "mute"} = {} => \A i \in VmId \cap want : ~ OwesVm(t, i) /\ ~ Asks(t, i)
      BY <1>0, <1>1, <3>2 DEF Asks
    <3> QED
      BY <1>0, <1>1, <2>0, <3>3, <3>4, Back_Kept
  <2> QED
    BY <1>0, <2>1, <2>2
<1>7. CASE VmsStopped(t)
  <2>0. UNCHANGED <<services, want>> /\ task[t].pc = "vms" /\ \A i : ~ Asks(t, i)
    BY <1>7 DEF VmsStopped, Asks
  <2>1. CASE task[t].kind = "lock"
    BY <1>0, <1>1, <2>0, <2>1, Back_Kept
  <2>2. CASE task[t].kind = "rollback"
    <3>1. Kept(t, "smb", {s \in Smb : share[s].on}, task[t].cur)
      BY <1>0, <1>7, <2>2, VmsStopped_Task
    <3>2. \A a : OwesApp(t, a) => OwesApp(t, a)'
      BY <1>1, <3>1 DEF OwesApp, Kept, Same
    <3>3. \A i : OwesVm(t, i) => OwesVm(t, i)'
      BY <1>1, <3>1 DEF OwesVm, Kept, Same
    <3> QED
      BY <1>0, <1>1, <2>0, <3>2, <3>3, Back_Kept
  <2> QED
    BY <1>0, <2>1, <2>2
<1> QED
  BY <1>3, <1>4, <1>5, <1>6, <1>7

\* A step of a rollback after the last guest: apps and VMs are owed as before.
LEMMA Back_Late ==
  ASSUME Base, BackInv, NEW t \in Task, Alone(t), task[t].kind = "rollback",
         task'[t].kind = task[t].kind, task'[t].apps = task[t].apps,
         task'[t].ids = task[t].ids, UNCHANGED <<app, vm, want>>, blame \subseteq blame',
         task[t].pc \in ShareDownPcs \cup {"renfs", "resmb"},
         task'[t].pc \in ShareDownPcs \cup {"renfs", "resmb"},
         blame' \cap {"left", "mute"} = {} =>
           /\ \A s \in Share : share[s].live = share[s].on => share'[s].live = share'[s].on
           /\ \A s \in Share \cap want :
                 share[s].on \/ OwesShare(t, s) => share'[s].on \/ OwesShare(t, s)'
  PROVE  BackInv'
<1> USE DEF VmPcs, ShareDownPcs, SwapPcs, ResumePcs
<1>1. \A a : OwesApp(t, a) => OwesApp(t, a)'
  BY DEF OwesApp
<1>2. \A i : OwesVm(t, i) => OwesVm(t, i)'
  BY DEF OwesVm
<1>3. \A i : ~ Asks(t, i)
  BY DEF Asks
<1>4. \A i \in VmId : VmStep(t, i)
  BY <1>2, <1>3 DEF VmStep
<1> QED
  BY <1>1, <1>4, Back_Task

\* A share that is disabled is remembered.
LEMMA Back_Shares ==
  ASSUME Base, BackInv, NEW t \in Task,
         \/ SharesDisabled(t)
         \/ \E s \in Share : DisableShare(t, s) \/ EnableShare(t, s)
  PROVE  BackInv'
<1> USE DEF VmPcs, ShareDownPcs, SwapPcs, ResumePcs
<1>0. /\ TypeOK /\ ListInv /\ blame \subseteq blame' /\ UNCHANGED <<app, vm, want>>
      /\ task[t].kind = "rollback" /\ task[t].pc \in {"smb", "nfs", "renfs", "resmb"}
      /\ Alone(t)
  <2>1. /\ TypeOK /\ ListInv /\ blame \subseteq blame' /\ UNCHANGED <<app, vm, want>>
        /\ task[t].pc \in {"smb", "nfs", "renfs", "resmb"}
    BY DEF Base, SharesDisabled, DisableShare, EnableShare, Toggling, Blame, services
  <2>2. task[t].kind = "rollback"
    BY <2>1 DEF Base, KindInv
  <2>3. Alone(t)
    BY Continue_Facts DEF Continue
  <2> QED
    BY <2>1, <2>2, <2>3
<1>1. CASE SharesDisabled(t)
  <2>1. /\ task[t].pc \in {"smb", "nfs"} /\ UNCHANGED share
        /\ \E pc \in {"nfs", "guard"} : \E todo : Kept(t, pc, todo, task[t].cur)
    BY <1>0, <1>1, SharesDisabled_Task DEF SharesDisabled, Toggling, services
  <2>2. \A s : OwesShare(t, s) => OwesShare(t, s)'
    BY <2>1 DEF OwesShare, Kept, Same
  <2>3. /\ task'[t].kind = task[t].kind /\ task'[t].apps = task[t].apps
        /\ task'[t].ids = task[t].ids /\ task'[t].pc \in {"nfs", "guard"}
    BY <2>1 DEF Kept, Same
  <2> QED
    BY <1>0, <2>1, <2>2, <2>3, Back_Late
<1>2. ASSUME NEW s \in Share, DisableShare(t, s) PROVE BackInv'
  <2>0. task[t].pc \in {"smb", "nfs"}
    BY <1>2 DEF DisableShare, Toggling
  <2>2. CASE /\ share' = [share EXCEPT ![s] = [on |-> FALSE, live |-> FALSE]]
             /\ task'[t].kind = task[t].kind /\ task'[t].pc = task[t].pc
             /\ task'[t].apps = task[t].apps /\ task'[t].ids = task[t].ids
             /\ task[t].smb \subseteq task'[t].smb /\ task[t].nfs \subseteq task'[t].nfs
             /\ s \in task'[t].smb \cup task'[t].nfs
    <3>1. OwesShare(t, s)'
      BY <2>0, <2>2 DEF OwesShare
    <3>2. \A x \in Share : x # s => share'[x] = share[x]
      BY <1>0, <2>2 DEF TypeOK
    <3>3. share'[s].live = share'[s].on
      BY <1>0, <2>2 DEF TypeOK
    <3>4. \A x : OwesShare(t, x) => OwesShare(t, x)'
      BY <2>0, <2>2 DEF OwesShare
    <3> QED
      BY <1>0, <2>0, <2>2, <3>1, <3>2, <3>3, <3>4, Back_Late
  <2>3. \/ blame' = blame \cup {"short", "left"}
        \/ /\ share' = [share EXCEPT ![s] = [on |-> FALSE, live |-> FALSE]]
           /\ task'[t].kind = task[t].kind /\ task'[t].pc = task[t].pc
           /\ task'[t].apps = task[t].apps /\ task'[t].ids = task[t].ids
           /\ task'[t].smb = IF task[t].pc = "smb" THEN task[t].smb \cup {s} ELSE task[t].smb
           /\ task'[t].nfs = IF task[t].pc = "smb" THEN task[t].nfs ELSE task[t].nfs \cup {s}
    BY <1>0, <1>2, DisableShare_Task, Zenon
  <2> QED
    BY <2>0, <2>2, <2>3 DEF BackInv
<1>3. ASSUME NEW s \in Share, EnableShare(t, s) PROVE BackInv'
  <2>0. /\ task[t].pc \in {"renfs", "resmb"}
        /\ Kept(t, task[t].pc, task[t].todo \ {s}, task[t].cur)
    BY <1>0, <1>3, EnableShare_Task DEF EnableShare
  <2>1. \/ share' = [share EXCEPT ![s] = [on |-> TRUE, live |-> TRUE]]
        \/ "left" \in blame'
    BY <1>3 DEF EnableShare, Blame
  <2>2. CASE share' = [share EXCEPT ![s] = [on |-> TRUE, live |-> TRUE]]
    <3>1. \A x \in Share : x # s => share'[x] = share[x]
      BY <1>0, <2>2 DEF TypeOK
    <3>2. share'[s].live = share'[s].on /\ share'[s].on
      BY <1>0, <2>2 DEF TypeOK
    <3>3. \A x : x # s /\ OwesShare(t, x) => OwesShare(t, x)'
      BY <2>0 DEF OwesShare, Kept, Same
    <3>4. /\ task'[t].kind = task[t].kind /\ task'[t].apps = task[t].apps
          /\ task'[t].ids = task[t].ids /\ task'[t].pc = task[t].pc
      BY <2>0 DEF Kept, Same
    <3> QED
      BY <1>0, <2>0, <3>1, <3>2, <3>3, <3>4, Back_Late
  <2> QED
    BY <2>1, <2>2 DEF BackInv
<1> QED
  BY <1>1, <1>2, <1>3

\* The swap, whatever becomes of it, leads to the resume with every debt.
LEMMA Back_Swap ==
  ASSUME Base, BackInv, NEW t \in Task,
         AcquireGuard(t) \/ SwapCheck(t) \/ SafetySnapshot(t) \/ DeleteLive(t) \/ Recreate(t)
  PROVE  BackInv'
<1> USE DEF VmPcs, ShareDownPcs, SwapPcs, ResumePcs
<1>1. /\ TypeOK /\ UNCHANGED <<services, want, blame>> /\ task[t].pc \in SwapPcs
  BY DEF Base, AcquireGuard, SwapCheck, SafetySnapshot, DeleteLive, Recreate
<1>2. task[t].kind = "rollback"
  BY <1>1 DEF Base, KindInv
<1>3. \/ \E pc \in {"check", "safety", "delete", "recreate"} : Goto(t, pc)
      \/ \E out \in {"ok", "swap"} : Resume(t, out)
  BY DEF AcquireGuard, SwapCheck, SafetySnapshot, DeleteLive, Recreate
<1>4. \/ \E pc \in {"check", "safety", "delete", "recreate"} :
              Kept(t, pc, task[t].todo, task[t].cur)
      \/ Kept(t, "renfs", task[t].nfs, task[t].cur)
  BY <1>1, <1>3, GotoFacts, Resume_Task
<1>5. /\ Alone(t) /\ task'[t].kind = task[t].kind /\ task'[t].apps = task[t].apps
      /\ task'[t].ids = task[t].ids /\ task'[t].pc \in SwapPcs \cup {"renfs"}
  BY <1>4 DEF Kept, Same
<1>6. \A s : OwesShare(t, s) => OwesShare(t, s)'
  BY <1>1, <1>4 DEF OwesShare, Kept, Same
<1> QED
  BY <1>1, <1>2, <1>5, <1>6, Back_Late DEF services

\* The resume pays the debts list by list.
LEMMA Back_Resume ==
  ASSUME Base, BackInv, NEW t \in Task,
         \/ ResumeNext(t)
         \/ (\E i \in VmId : StartVm(t, i)) \/ Greet(t)
         \/ \E a \in App : StartApp(t, a)
  PROVE  BackInv'
<1> USE DEF VmPcs, ShareDownPcs, SwapPcs, ResumePcs
<1>0. /\ TypeOK /\ blame \subseteq blame' /\ UNCHANGED <<share, want>>
      /\ task[t].pc \in ResumePcs /\ task[t].kind = "rollback" /\ \A i : ~ Asks(t, i)
  <2>1. /\ TypeOK /\ blame \subseteq blame' /\ UNCHANGED <<share, want>>
        /\ task[t].pc \in ResumePcs
    BY DEF Base, ResumeNext, StartVm, Greet, StartApp, Blame, services
  <2> QED
    BY <2>1 DEF Base, KindInv, Asks
<1>1. CASE ResumeNext(t)
  <2>1. UNCHANGED <<services, want>> /\ task[t].todo = {}
    BY <1>1 DEF ResumeNext
  <2>2. \/ task[t].pc = "renfs" /\ Kept(t, "resmb", task[t].smb, task[t].cur)
        \/ task[t].pc = "resmb" /\ Kept(t, "revms", task[t].ids, task[t].cur)
        \/ task[t].pc = "revms" /\ Kept(t, "reapps", task[t].apps, task[t].cur)
        \/ task[t].pc = "reapps" /\ Kept(t, "done", {}, task[t].cur)
    BY <1>0, <1>1, ResumeNext_Task
  <2>3. \A a : OwesApp(t, a) => OwesApp(t, a)'
    BY <2>1, <2>2 DEF OwesApp, Kept, Same
  <2>4. \A i : OwesVm(t, i) => OwesVm(t, i)'
    BY <2>1, <2>2 DEF OwesVm, Kept, Same
  <2>5. \A s : OwesShare(t, s) => OwesShare(t, s)'
    BY <2>1, <2>2 DEF OwesShare, Kept, Same
  <2>6. Alone(t)
    BY <2>2 DEF Kept
  <2> QED
    BY <1>0, <2>1, <2>3, <2>4, <2>5, <2>6, Back_Kept
<1>2. ASSUME NEW i \in VmId, StartVm(t, i) PROVE BackInv'
  <2>0. task[t].pc = "revms" /\ app' = app
    BY <1>2 DEF StartVm
  <2>a. PICK pc \in {"revms", "greet"} : \E cur : Kept(t, pc, task[t].todo \ {i}, cur)
    BY <1>0, <1>2, StartVm_Task
  <2>1. PICK cur : Kept(t, pc, task[t].todo \ {i}, cur)
    BY <2>a
  <2>2. \A a : OwesApp(t, a) => OwesApp(t, a)'
    BY <2>0, <2>1 DEF OwesApp, Kept, Same
  <2>3. \A s : ~ OwesShare(t, s)
    BY <2>0, <2>1 DEF OwesShare
  <2>4. \A x : x # i /\ OwesVm(t, x) => OwesVm(t, x)'
    BY <2>0, <2>1 DEF OwesVm, Kept, Same
  <2>5. \/ vm' = [vm EXCEPT ![i] = "on"]
        \/ vm' = vm /\ (is_running(i) \/ Unseen(i) \/ (i \in want => "left" \in blame'))
    <3>1. CASE vm' = [vm EXCEPT ![i] = "on"] \/ (is_running(i) /\ vm' = vm)
      BY <3>1, Zenon
    <3>2. CASE /\ ~is_running(i) /\ UNCHANGED vm
               /\ Blame(IF i \in want /\ ~Unseen(i) THEN {"left"} ELSE {})
      <4>1. i \in want /\ ~Unseen(i) => "left" \in blame'
        BY <3>2 DEF Blame
      <4> QED
        BY <3>2, <4>1
    <3> QED
      BY <1>2, <3>1, <3>2, Zenon DEF StartVm
  <2>6. \A x \in VmId : x # i => vm'[x] = vm[x]
    BY <1>0, <2>5 DEF TypeOK
  <2>7. \A x \in VmId : x # i => VmStep(t, x)
    BY <1>0, <2>4, <2>6 DEF VmStep
  <2>8. \/ vm'[i] = "on"
        \/ vm'[i] = vm[i] /\ vm[i] \in {"on", "asked", "stuck", "deaf", "lost"}
        \/ i \in want => "left" \in blame'
    BY <1>0, <2>5 DEF TypeOK, is_running, Unseen, Answers, Mute
  <2>9. i \in want /\ blame' \cap {"left", "mute"} = {} => VmStep(t, i)
    BY <1>0, <2>8 DEF VmStep
  <2>10. Alone(t)
    BY <2>1 DEF Kept
  <2>11. blame' \cap {"left", "mute"} = {} => \A x \in VmId \cap want' : VmStep(t, x)
    BY <1>0, <2>7, <2>9
  <2> QED
    BY <1>0, <2>0, <2>2, <2>3, <2>10, <2>11, Back_Task
<1>4. CASE Greet(t)
  <2>1. /\ Kept(t, "revms", task[t].todo, NoVm) /\ task[t].pc = "greet"
        /\ UNCHANGED <<services, want>>
    BY <1>0, <1>4, Greet_Task DEF Greet
  <2>2. \A a : OwesApp(t, a) => OwesApp(t, a)'
    BY <2>1 DEF OwesApp, Kept, Same
  <2>3. \A i : OwesVm(t, i) => OwesVm(t, i)'
    BY <2>1 DEF OwesVm, Kept, Same
  <2>4. \A s : ~ OwesShare(t, s)
    BY <2>1 DEF OwesShare
  <2>5. Alone(t)
    BY <2>1 DEF Kept
  <2> QED
    BY <1>0, <2>1, <2>2, <2>3, <2>4, <2>5, Back_Kept
<1>3. ASSUME NEW a \in App, StartApp(t, a) PROVE BackInv'
  <2>1. Kept(t, "reapps", task[t].todo \ {a}, task[t].cur) /\ task[t].pc = "reapps" /\ vm' = vm
    BY <1>0, <1>3, StartApp_Task DEF StartApp
  <2>2. \A x : x # a /\ OwesApp(t, x) => OwesApp(t, x)'
    BY <2>1 DEF OwesApp, Kept, Same
  <2>3. \A s : ~ OwesShare(t, s)
    BY <2>1 DEF OwesShare
  <2>4. \A x : ~ OwesVm(t, x)
    BY <2>1 DEF OwesVm
  <2>5. \A x \in VmId : VmStep(t, x)
    BY <1>0, <2>1, <2>4 DEF VmStep
  <2>6. app \subseteq app' /\ (a \in want /\ blame' \cap {"left", "mute"} = {} => a \in app')
    BY <1>3 DEF StartApp, Blame
  <2>7. Alone(t)
    BY <2>1 DEF Kept
  <2>8. ASSUME blame' \cap {"left", "mute"} = {}, NEW x \in App \cap want', x \in app \/ OwesApp(t, x)
        PROVE  x \in app' \/ OwesApp(t, x)'
    BY <1>0, <2>2, <2>6, <2>8
  <2> QED
    BY <1>0, <2>3, <2>5, <2>7, <2>8, Back_Task
<1> QED
  BY <1>1, <1>2, <1>3, <1>4

\* A request that begins, or ends, or only has the filesystem to close.
LEMMA Back_Rest ==
  ASSUME Base, BackInv, NEW t \in Task,
         \/ Unmount(t) \/ UnlinkKey(t) \/ Reply(t) \/ Dropped(t)
         \/ \E k \in Kinds : Request(t, k)
  PROVE  BackInv'
<1> USE DEF VmPcs, ShareDownPcs, SwapPcs, ResumePcs
<1>0. TypeOK
  BY DEF Base
<1>1. CASE Dropped(t)
  BY <1>1 DEF Dropped, Blame, BackInv
<1>2. CASE Unmount(t) \/ UnlinkKey(t) \/ Reply(t)
  <2>1. ~ Owing(t) /\ UNCHANGED <<services, want, blame>>
    BY <1>2 DEF Owing, Unmount, UnlinkKey, Reply
  <2>2. Alone(t)
    BY <1>2, Continue_Facts DEF Continue
  <2> QED
    BY <2>1, <2>2, OwesNothing, Back_Kept
<1>3. ASSUME NEW k \in Kinds, Request(t, k) PROVE BackInv'
  <2>1. /\ task[t] = Idle /\ UNCHANGED <<services, want>> /\ blame \subseteq blame'
    BY <1>3 DEF Request, Blame
  <2>2. Alone(t)
    BY <1>0, <1>3, Request_Task
  <2>3. ~ Owing(t)
    BY <2>1, IdleFacts DEF Owing
  <2> QED
    BY <2>1, <2>2, <2>3, OwesNothing, Back_Kept
<1> QED
  BY <1>1, <1>2, <1>3

\* A guest that a rollback asked to stop is one it will start again.
LEMMA AskedOwes ==
  ASSUME Base, NEW t \in Task, NEW i, Asks(t, i)
  PROVE  OwesVm(t, i)
<1>1. task[t].pc \in GuestPcs /\ task[t].kind = "rollback" /\ task[t].cur = i
  BY DEF Asks
<1>2. i \in task[t].ids \ task[t].todo
  BY <1>1 DEF Base, KindInv
<1> QED
  BY <1>1, <1>2 DEF OwesVm, VmPcs

\* The operator wants what he starts, and not what he stops.
LEMMA Back_World ==
  ASSUME Base, BackInv,
         \/ \E a \in App : OperatorApp(a)
         \/ \E i \in VmId : \/ OperatorVm(i) \/ MonitorHangs(i) \/ MonitorRecovers(i)
                            \/ GuestStops(i)
         \/ Reopen
  PROVE  BackInv'
<1> SUFFICES ASSUME blame' \cap {"left", "mute"} = {}
             PROVE  BackInv'
  BY DEF BackInv
<1>0. /\ TypeOK /\ blame \subseteq blame' /\ UNCHANGED <<share, task>>
      /\ App \cap Share = {} /\ VmId \cap (App \cup Share) = {}
  BY DEF Base, OperatorApp, OperatorVm, MonitorHangs, MonitorRecovers, GuestStops, Reopen,
         Event, Blame, services
<1>1. /\ blame \cap {"left", "mute"} = {}
      /\ \A a \in App \cap want : a \in app \/ \E t \in Task : OwesApp(t, a)
      /\ \A i \in VmId \cap want :
            \/ vm[i] \in {"on", "stuck"}
            \/ vm[i] \in {"asked", "deaf"} /\ \E t \in Task : Asks(t, i)
            \/ vm[i] \in {"off", "dying"} /\ \E t \in Task : OwesVm(t, i)
      /\ \A s \in Share : share[s].live = share[s].on
      /\ \A s \in Share \cap want : share[s].on \/ \E t \in Task : OwesShare(t, s)
  BY <1>0 DEF BackInv
<1>2. /\ \A t, a : OwesApp(t, a)' <=> OwesApp(t, a)
      /\ \A t, i : OwesVm(t, i)' <=> OwesVm(t, i)
      /\ \A t, i : Asks(t, i)' <=> Asks(t, i)
      /\ \A t, s : OwesShare(t, s)' <=> OwesShare(t, s)
  <2>1. \A t, a : OwesApp(t, a)' <=> OwesApp(t, a)
    BY <1>0 DEF OwesApp
  <2>2. \A t, i : OwesVm(t, i)' <=> OwesVm(t, i)
    BY <1>0 DEF OwesVm
  <2>3. \A t, i : Asks(t, i)' <=> Asks(t, i)
    BY <1>0 DEF Asks
  <2>4. \A t, s : OwesShare(t, s)' <=> OwesShare(t, s)
    BY <1>0 DEF OwesShare
  <2> QED
    BY <2>1, <2>2, <2>3, <2>4
<1>3. ASSUME want' \cap Share = want \cap Share,
             \A a \in App \cap want' : a \in app' \/ \E t \in Task : OwesApp(t, a),
             \A i \in VmId \cap want' :
                \/ vm'[i] \in {"on", "stuck"}
                \/ vm'[i] \in {"asked", "deaf"} /\ \E t \in Task : Asks(t, i)
                \/ vm'[i] \in {"off", "dying"} /\ \E t \in Task : OwesVm(t, i)
      PROVE  BackInv'
  <2>1. \A a \in App \cap want' : a \in app' \/ \E t \in Task : OwesApp(t, a)'
    BY <1>2, <1>3
  <2>2. \A i \in VmId \cap want' :
           \/ vm'[i] \in {"on", "stuck"}
           \/ vm'[i] \in {"asked", "deaf"} /\ \E t \in Task : Asks(t, i)'
           \/ vm'[i] \in {"off", "dying"} /\ \E t \in Task : OwesVm(t, i)'
    BY <1>2, <1>3
  <2>3. \A s \in Share : share'[s].live = share'[s].on
    BY <1>0, <1>1
  <2>4. \A s \in Share \cap want' : share'[s].on \/ \E t \in Task : OwesShare(t, s)'
    BY <1>0, <1>1, <1>2, <1>3
  <2> QED
    BY <2>1, <2>2, <2>3, <2>4 DEF BackInv
<1>4. ASSUME NEW a \in App, OperatorApp(a) PROVE BackInv'
  <2>1. \/ app' = app \cup {a} /\ want' = want \cup {a}
        \/ app' = app \ {a} /\ want' = want \ {a}
    BY <1>4 DEF OperatorApp
  <2>2. vm' = vm
    BY <1>4 DEF OperatorApp
  <2>3. want' \cap Share = want \cap Share /\ want' \cap VmId = want \cap VmId
    BY <1>0, <2>1
  <2>4. \A x \in App \cap want' : x \in app' \/ \E t \in Task : OwesApp(t, x)
    BY <1>1, <2>1
  <2> QED
    BY <1>1, <1>3, <2>2, <2>3, <2>4
<1>5. ASSUME NEW i \in VmId, OperatorVm(i) PROVE BackInv'
  <2>1. \/ vm' = [vm EXCEPT ![i] = "on"] /\ want' = want \cup {i}
        \/ vm' = [vm EXCEPT ![i] = "asked"] /\ want' = want \ {i}
    BY <1>5 DEF OperatorVm
  <2>2. app' = app
    BY <1>5 DEF OperatorVm
  <2>3. want' \cap Share = want \cap Share /\ want' \cap App = want \cap App
    BY <1>0, <2>1
  <2>4. \A x \in VmId : x # i => vm'[x] = vm[x] /\ (x \in want' <=> x \in want)
    BY <1>0, <2>1 DEF TypeOK
  <2>5. i \in want' => vm'[i] = "on"
    BY <1>0, <2>1 DEF TypeOK
  <2>6. ASSUME NEW x \in VmId \cap want'
        PROVE  \/ vm'[x] \in {"on", "stuck"}
               \/ vm'[x] \in {"asked", "deaf"} /\ \E t \in Task : Asks(t, x)
               \/ vm'[x] \in {"off", "dying"} /\ \E t \in Task : OwesVm(t, x)
    <3>1. CASE x = i
      BY <2>5, <2>6, <3>1
    <3>2. CASE x # i
      BY <1>1, <2>4, <2>6, <3>2
    <3> QED
      BY <3>1, <3>2
  <2> QED
    BY <1>1, <1>3, <2>2, <2>3, <2>6
<1>6. ASSUME NEW i \in VmId, MonitorHangs(i) \/ MonitorRecovers(i) \/ GuestStops(i)
      PROVE  BackInv'
  <2>1. UNCHANGED <<app, want>>
    BY <1>6 DEF MonitorHangs, MonitorRecovers, GuestStops
  <2>2. \A x \in VmId : x # i => vm'[x] = vm[x]
    BY <1>0, <1>6 DEF MonitorHangs, MonitorRecovers, GuestStops, TypeOK
  <2>3. \/ vm'[i] \in {"on", "stuck"}
        \/ vm'[i] \in {"asked", "deaf"} /\ vm[i] \in {"asked", "deaf"}
        \/ vm'[i] = "off" /\ vm[i] \in {"asked", "deaf", "dying", "lost"}
    BY <1>0, <1>6 DEF MonitorHangs, MonitorRecovers, GuestStops, TypeOK, is_running, Answers,
                      Mute
  <2>4. \A t \in Task : Asks(t, i) => OwesVm(t, i)
    BY AskedOwes
  <2>5. ASSUME NEW x \in VmId \cap want'
        PROVE  \/ vm'[x] \in {"on", "stuck"}
               \/ vm'[x] \in {"asked", "deaf"} /\ \E t \in Task : Asks(t, x)
               \/ vm'[x] \in {"off", "dying"} /\ \E t \in Task : OwesVm(t, x)
    <3>1. CASE x = i
      BY <1>1, <2>1, <2>3, <2>4, <2>5, <3>1
    <3>2. CASE x # i
      BY <1>1, <2>1, <2>2, <2>5, <3>2
    <3> QED
      BY <3>1, <3>2
  <2> QED
    BY <1>1, <1>3, <2>1, <2>5
<1>7. CASE Reopen
  BY <1>1, <1>3, <1>7 DEF Reopen, services
<1> QED
  BY <1>4, <1>5, <1>6, <1>7

\* Everything that is wanted and down stays owed.
LEMMA Back_Step ==
  ASSUME Base, BackInv, [Next]_vars
  PROVE  BackInv'
<1>1. CASE UNCHANGED vars
  <2>1. UNCHANGED <<app, vm, share, task, want, blame>>
    BY <1>1 DEF vars, services
  <2> QED
    BY <2>1 DEF BackInv, OwesApp, OwesVm, Asks, OwesShare
<1> SUFFICES ASSUME Next PROVE BackInv'
  BY <1>1
<1>2. \A t \in Task : Continue(t) => want' \subseteq want
  BY Wants
<1>3. ASSUME NEW t \in Task, Continue(t) PROVE BackInv'
  <2>0. want' \subseteq want
    BY <1>2, <1>3
  <2>1. CASE \/ LockDeps(t) \/ RollbackDeps(t) \/ StopAppFails(t) \/ AppsStopped(t)
             \/ \E a \in App : StopApp(t, a)
    BY <2>0, <2>1, Back_Apps
  <2>2. CASE \/ \E v \in Vm \cup VmId : StopVm(t, v)
             \/ PressButton(t) \/ VmWait(t) \/ KillVm(t) \/ QuitVm(t) \/ KillVmFails(t)
             \/ VmsStopped(t)
    BY <2>0, <2>2, Back_Vms
  <2>3. CASE \/ SharesDisabled(t)
             \/ \E s \in Share : DisableShare(t, s) \/ EnableShare(t, s)
    BY <2>3, Back_Shares
  <2>4. CASE AcquireGuard(t) \/ SwapCheck(t) \/ SafetySnapshot(t) \/ DeleteLive(t) \/ Recreate(t)
    BY <2>4, Back_Swap
  <2>5. CASE \/ ResumeNext(t)
             \/ (\E i \in VmId : StartVm(t, i)) \/ Greet(t)
             \/ \E a \in App : StartApp(t, a)
    BY <2>5, Back_Resume
  <2>6. CASE Unmount(t) \/ UnlinkKey(t) \/ Reply(t)
    BY <2>6, Back_Rest
  <2> QED
    BY <1>3, <2>1, <2>2, <2>3, <2>4, <2>5, <2>6 DEF Continue
<1>4. ASSUME NEW t \in Task, Dropped(t) \/ \E k \in Kinds : Request(t, k) PROVE BackInv'
  BY <1>4, Back_Rest
<1> QED
  BY <1>3, <1>4, Back_World DEF Next

-----------------------------------------------------------------------------
(* The theorems.                                                             *)

IInv == Base /\ SafeInv /\ QuietInv /\ ShareInv /\ BackInv

\* The invariant holds before the first request.
LEMMA Init_IInv ==
  ASSUME Init
  PROVE  IInv
<1> USE DEF VmPcs, ShareDownPcs, SwapPcs, ResumePcs
<1>1. \A t \in Task : task[t] = Idle /\ task[t].pc = "idle" /\ task[t].kind = "none"
  BY IdleFacts DEF Init
<1>2. PICK on \in SUBSET Share :
         share = [s \in Share |-> [on |-> s \in on, live |-> s \in on]]
  BY DEF Init
<1>3. /\ share \in [Share -> [on : BOOLEAN, live : BOOLEAN]]
      /\ \A s \in Share : share[s].on = (s \in on) /\ share[s].live = (s \in on)
  BY <1>2
<1>4. TypeOK
  <2>1. task \in [Task -> Record]
    BY IdleFacts DEF Init
  <2>2. \A t \in Task :
           /\ task[t].pc = "idle" \/ task[t].kind = "none" => task[t] = Idle
           /\ task[t].ids \subseteq IF task[t].kind = "lock" THEN Vm ELSE VmId
           /\ task[t].cur \in task[t].ids \cup {NoVm}
    BY <1>1, IdleFacts
  <2>3. /\ app \subseteq App /\ vm \in [VmId -> VmState]
        /\ live \in Content \cup {"gone"} /\ safety \subseteq Content
        /\ guard \subseteq Task /\ \A t, o \in guard : t = o
        /\ fs \in [mounted : BOOLEAN, key : BOOLEAN]
        /\ events \in 0 .. MaxEvents /\ blame \subseteq {"overlap", "short", "left", "mute"}
    BY DEF Init, VmState, Content
  <2>4. want \subseteq App \cup VmId \cup Share
    BY DEF Init
  <2> QED
    BY <1>3, <2>1, <2>2, <2>3, <2>4 DEF TypeOK
<1>5. KindInv /\ ListInv
  BY <1>1, IdleFacts DEF KindInv, ListInv
<1>6. SafeInv
  BY <1>1 DEF SafeInv, UndoPoint, Init
<1>7. QuietInv
  BY <1>1, <1>3 DEF QuietInv, OneInv, ExportInv, StoppedInv, Active
<1>8. \A s \in Share : s \in want <=> share[s].on
  <2>1. \A s \in Share : s \notin App /\ s \notin VmId
    OBVIOUS
  <2> QED
    BY <2>1 DEF Init
<1>9. ShareInv
  BY <1>1, <1>8, IdleFacts DEF ShareInv
<1>10. BackInv
  <2>1. app = App
    BY DEF Init
  <2>2. \A i \in VmId \cap want : vm[i] = "on"
    BY DEF Init
  <2>3. \A s \in Share : share[s].live = share[s].on
    BY <1>3
  <2>4. \A s \in Share \cap want : share[s].on
    BY <1>8
  <2> QED
    BY <2>1, <2>2, <2>3, <2>4 DEF BackInv
<1> QED
  BY <1>4, <1>5, <1>6, <1>7, <1>9, <1>10 DEF IInv, Base

\* The inductive invariant of the cascades holds in every state of the engine, for
\* any number of overlapping requests.
THEOREM Invariance == Spec => []IInv
<1>1. IInv /\ [Next]_vars => IInv'
  BY Base_Step, Safe_Step, Quiet_Step, Share_Step, Back_Step DEF IInv
<1> QED
  BY <1>1, Init_IInv, PTL DEF Spec

\* Type correctness: each cascade works on names or ids of VMs as it should, and
\* lock_destination has at most one holder.
THEOREM TypeCorrect == Spec => []TypeOK
<1>1. IInv => TypeOK
  BY DEF IInv, Base
<1> QED
  BY <1>1, Invariance, PTL

\* The original contents are in a safety snapshot before they leave the path
\* (SubvolumeService::rollback).
THEOREM UndoKept == Spec => []UndoPoint
<1>1. IInv => UndoPoint
  BY DEF IInv, SafeInv
<1> QED
  BY <1>1, Invariance, PTL

\* rollback_with_dependents swaps the subvolume only when nothing uses it that it could
\* see: a VM that ran and did not answer its ping is excepted (qmp.rs ping times out).
THEOREM SwapIsQuiet == Spec => []SwapQuiet
<1>1. ASSUME IInv PROVE SwapQuiet
  <2> SUFFICES ASSUME NEW t \in Task, task[t].pc \in {"delete", "recreate"},
                      blame \cap {"overlap", "short", "mute"} = {}
               PROVE  /\ app = {}
                      /\ \A i \in VmId : vm[i] \in {"off", "dying"}
                      /\ \A s \in Share : ~ share[s].live
    BY DEF SwapQuiet
  <2>1. task[t].kind = "rollback"
    BY <1>1 DEF IInv, Base, KindInv, ShareDownPcs, SwapPcs
  <2>2. Stopped(t)
    BY <1>1, <2>1 DEF IInv, QuietInv, StoppedInv
  <2> QED
    BY <2>2 DEF Stopped, ShareDownPcs, SwapPcs, Down, Share
<1> QED
  BY <1>1, Invariance, PTL

\* Once every request has been answered, everything the operator wants is back, unless
\* a VM that ran did not answer its ping (subvol_rollback.rs, the resume).
THEOREM EverythingBack == Spec => []AllBack
<1>1. ASSUME IInv PROVE AllBack
  <2> SUFFICES ASSUME \A t \in Task : task[t] = Idle, blame \cap {"left", "mute"} = {}
               PROVE  /\ want \cap App \subseteq app
                      /\ \A i \in VmId \cap want : vm[i] # "off"
                      /\ {s \in Share : share[s].live} = want \cap Share
    BY DEF AllBack
  <2>1. \A t \in Task : ~ Owing(t)
    BY IdleFacts DEF Owing, VmPcs, ShareDownPcs, SwapPcs, ResumePcs
  <2>2. \A t \in Task : /\ \A a : ~ OwesApp(t, a)
                        /\ \A i : ~ OwesVm(t, i) /\ ~ Asks(t, i)
                        /\ \A s : ~ OwesShare(t, s)
    BY <2>1, OwesNothing
  <2>3. BackInv /\ ShareInv /\ TypeOK
    BY <1>1 DEF IInv, Base
  <2>4. want \cap App \subseteq app
    BY <2>2, <2>3 DEF BackInv
  <2>5. \A i \in VmId \cap want : vm[i] # "off"
    BY <2>2, <2>3 DEF BackInv
  <2>6. \A s \in Share : share[s].live <=> s \in want
    BY <2>2, <2>3 DEF BackInv, ShareInv, TypeOK
  <2> QED
    BY <2>4, <2>5, <2>6
<1> QED
  BY <1>1, Invariance, PTL

-----------------------------------------------------------------------------
(* No cascade is wedged.                                                     *)

\* Program points at which a rollback holds lock_destination.
HeldPcs == {"check", "safety", "delete", "recreate"}

\* The holder is a rollback in its swap, and every rollback in its swap is the
\* holder; the last loop of the resume is about its apps.
WayInv ==
    \A t \in Task :
        /\ t \in guard <=> task[t].pc \in HeldPcs
        /\ task[t].pc = "reapps" => task[t].todo \subseteq task[t].apps

\* A step outside the swap and the loops of the resume.
LEMMA Way_Task ==
  ASSUME WayInv, NEW t \in Task, Alone(t), guard' = guard, task[t].pc \notin HeldPcs,
         task'[t].pc \notin HeldPcs,
         task'[t].pc = "reapps" => task'[t].todo \subseteq task'[t].apps
  PROVE  WayInv'
  BY DEF WayInv, Alone

\* A step of the swap: it takes the lock, keeps it, or lets it go.
LEMMA Way_Swap ==
  ASSUME WayInv, NEW t \in Task, Alone(t), task'[t].pc \in HeldPcs \cup {"renfs", "idle"},
         task'[t].pc \in HeldPcs <=> t \in guard', \A o \in Task \ {t} : o \in guard' <=> o \in guard
  PROVE  WayInv'
  BY DEF WayInv, Alone, HeldPcs

\* The lock and the lists, step by step.
LEMMA Way_Continue ==
  ASSUME Base, WayInv, NEW t \in Task, Continue(t)
  PROVE  WayInv'
<1> USE DEF HeldPcs
<1> DEFINE r == task[t]
<1>0. TypeOK
  BY DEF Base
<1>1. CASE Reply(t)
  <2>1. Alone(t) /\ task'[t].pc = "idle" /\ r.pc = "done" /\ guard' = guard
    BY <1>1, Over_Base, IdleFacts DEF Reply
  <2> QED
    BY <2>1, Way_Task
<1>2. CASE LockDeps(t) \/ RollbackDeps(t)
  <2>1. Alone(t) /\ task'[t].pc \in {"apps", "done"}
    BY <1>0, <1>2, LockDeps_Task, RollbackDeps_Task DEF Kept
  <2>2. r.pc = "deps" /\ guard' = guard
    BY <1>2 DEF LockDeps, RollbackDeps
  <2> QED
    BY <2>1, <2>2, Way_Task
<1>3. ASSUME NEW a \in App, StopApp(t, a) \/ StartApp(t, a) PROVE WayInv'
  <2>1. CASE StopApp(t, a)
    <3>1. Alone(t) /\ task'[t].pc = "apps" /\ r.pc = "apps" /\ guard' = guard
      BY <1>0, <2>1, StopApp_Task DEF Kept, StopApp
    <3> QED
      BY <3>1, Way_Task
  <2>2. CASE StartApp(t, a)
    <3>1. /\ Alone(t) /\ task'[t].pc = "reapps" /\ r.pc = "reapps" /\ guard' = guard
          /\ task'[t].todo = r.todo \ {a} /\ task'[t].apps = r.apps
      BY <1>0, <2>2, StartApp_Task DEF Kept, Same, StartApp
    <3>2. r.todo \subseteq r.apps
      BY <3>1 DEF WayInv
    <3> QED
      BY <3>1, <3>2, Way_Task
  <2> QED
    BY <1>3, <2>1, <2>2
<1>4. CASE StopAppFails(t) \/ AppsStopped(t)
  <2>1. Alone(t) /\ task'[t].pc \in {"done", "vms"}
    BY <1>0, <1>4, StopAppFails_Task, AppsStopped_Task DEF Kept
  <2>2. r.pc = "apps" /\ guard' = guard
    BY <1>4 DEF StopAppFails, AppsStopped
  <2> QED
    BY <2>1, <2>2, Way_Task
<1>5. ASSUME NEW v \in Vm \cup VmId, StopVm(t, v) PROVE WayInv'
  <2>1. Alone(t) /\ task'[t].pc \in {"vms", "press", "kill"}
    BY <1>0, <1>5, StopVm_Task DEF Kept
  <2>2. r.pc = "vms" /\ guard' = guard
    BY <1>5 DEF StopVm
  <2> QED
    BY <2>1, <2>2, Way_Task
<1>6. CASE PressButton(t) \/ VmWait(t) \/ KillVm(t) \/ QuitVm(t) \/ KillVmFails(t)
  <2>1. \/ Alone(t) /\ task'[t].pc \in {"vms", "wait", "kill", "quit", "done"}
        \/ Kept(t, "reapps", r.apps, NoVm)
    BY <1>0, <1>6, PressButton_Task, VmWait_Task, KillVm_Task, QuitVm_Task, KillVmFails_Task
    DEF Kept
  <2>2. r.pc \in GuestPcs /\ guard' = guard
    BY <1>6 DEF PressButton, VmWait, KillVm, QuitVm, KillVmFails
  <2> QED
    BY <2>1, <2>2, Way_Task DEF Kept, Same
<1>7. CASE VmsStopped(t) \/ SharesDisabled(t)
  <2>1. Alone(t) /\ task'[t].pc \in {"unmount", "smb", "nfs", "guard"}
    BY <1>0, <1>7, VmsStopped_Task, SharesDisabled_Task DEF Kept
  <2>2. r.pc \in {"vms", "smb", "nfs"} /\ guard' = guard
    BY <1>7 DEF VmsStopped, SharesDisabled, Toggling
  <2> QED
    BY <2>1, <2>2, Way_Task
<1>8. ASSUME NEW s \in Share, DisableShare(t, s) \/ EnableShare(t, s) PROVE WayInv'
  <2>1. Alone(t) /\ task'[t].pc = r.pc
    BY <1>0, <1>8, DisableShare_Task, EnableShare_Task DEF Base, Kept
  <2>2. r.pc \in {"smb", "nfs", "renfs", "resmb"} /\ guard' = guard
    BY <1>8 DEF DisableShare, EnableShare, Toggling
  <2> QED
    BY <2>1, <2>2, Way_Task
<1>9. CASE AcquireGuard(t)
  <2>1. Alone(t) /\ task'[t].pc = "check" /\ guard = {} /\ guard' = {t}
    BY <1>0, <1>9, GotoFacts DEF AcquireGuard, Kept
  <2> QED
    BY <2>1, Way_Swap
<1>10. CASE SwapCheck(t) \/ SafetySnapshot(t) \/ DeleteLive(t) \/ Recreate(t)
  <2>0. r.pc \in HeldPcs
    BY <1>10 DEF SwapCheck, SafetySnapshot, DeleteLive, Recreate
  <2>1. t \in guard
    BY <2>0 DEF WayInv
  <2>2. \/ guard' = guard /\ \E pc \in {"safety", "delete", "recreate"} : Goto(t, pc)
        \/ \E out \in {"ok", "swap"} : Resume(t, out)
    BY <1>10 DEF SwapCheck, SafetySnapshot, DeleteLive, Recreate
  <2>3. ASSUME guard' = guard, NEW pc \in {"safety", "delete", "recreate"}, Goto(t, pc)
        PROVE  WayInv'
    <3>1. Alone(t) /\ task'[t].pc = pc
      BY <1>0, <2>3, GotoFacts DEF Kept
    <3> QED
      BY <2>1, <2>3, <3>1, Way_Swap
  <2>4. ASSUME NEW out \in {"ok", "swap"}, Resume(t, out) PROVE WayInv'
    <3>1. Alone(t) /\ task'[t].pc = "renfs" /\ guard' = guard \ {t}
      BY <1>0, <2>4, Resume_Task DEF Kept, Resume
    <3>2. t \notin guard' /\ \A o \in Task \ {t} : o \in guard' <=> o \in guard
      BY <3>1
    <3> QED
      BY <3>1, <3>2, Way_Swap, SMTT(30)
  <2> QED
    BY <2>2, <2>3, <2>4
<1>11. CASE ResumeNext(t)
  <2>1. \/ r.pc = "renfs" /\ Kept(t, "resmb", r.smb, r.cur)
        \/ r.pc = "resmb" /\ Kept(t, "revms", r.ids, r.cur)
        \/ r.pc = "revms" /\ Kept(t, "reapps", r.apps, r.cur)
        \/ r.pc = "reapps" /\ Kept(t, "done", {}, r.cur)
    BY <1>0, <1>11, ResumeNext_Task
  <2>2. guard' = guard
    BY <1>11 DEF ResumeNext
  <2> QED
    BY <2>1, <2>2, Way_Task DEF Kept, Same
<1>12. ASSUME NEW i \in VmId, StartVm(t, i) PROVE WayInv'
  <2>0. r.pc = "revms" /\ guard' = guard
    BY <1>12 DEF StartVm
  <2>1. Alone(t) /\ task'[t].pc \in {"revms", "greet"}
    BY <1>0, <1>12, StartVm_Task DEF Kept
  <2> QED
    BY <2>0, <2>1, Way_Task
<1>14. CASE Greet(t)
  <2>0. r.pc = "greet" /\ guard' = guard
    BY <1>14 DEF Greet
  <2> QED
    BY <1>0, <1>14, <2>0, Greet_Task, Way_Task DEF Kept
<1>13. CASE Unmount(t) \/ UnlinkKey(t)
  <2>1. Alone(t) /\ task'[t].pc \in {"unlink", "done"}
    BY <1>0, <1>13, Lock_Task DEF Kept
  <2>2. r.pc \in {"unmount", "unlink"} /\ guard' = guard
    BY <1>13 DEF Unmount, UnlinkKey
  <2> QED
    BY <2>1, <2>2, Way_Task
<1> QED
  BY <1>1, <1>2, <1>3, <1>4, <1>5, <1>6, <1>7, <1>8, <1>9, <1>10, <1>11, <1>12, <1>13,
     <1>14 DEF Continue

\* Every step keeps the lock with the rollback in its swap.
LEMMA Way_Step ==
  ASSUME Base, WayInv, [Next]_vars
  PROVE  WayInv'
<1>1. CASE UNCHANGED <<task, guard>>
  BY <1>1 DEF WayInv
<1>2. ASSUME NEW t \in Task, NEW k \in Kinds, Request(t, k) PROVE WayInv'
  <2>1. TypeOK /\ task[t] = Idle /\ guard' = guard
    BY <1>2 DEF Base, Request
  <2>2. Alone(t) /\ task'[t].pc = "deps" /\ task[t].pc = "idle"
    BY <1>2, <2>1, Request_Task, IdleFacts
  <2> QED
    BY <2>1, <2>2, Way_Task DEF HeldPcs
<1>3. ASSUME NEW t \in Task, Dropped(t) PROVE WayInv'
  <2>1. Alone(t) /\ task'[t].pc = "idle" /\ guard' = guard \ {t}
    BY <1>3, Over_Base, IdleFacts DEF Dropped
  <2> QED
    BY <2>1, Way_Swap DEF HeldPcs
<1>4. \/ UNCHANGED <<task, guard>>
      \/ \E t \in Task : Continue(t) \/ Dropped(t) \/ \E k \in Kinds : Request(t, k)
  BY DEF Next, OperatorApp, OperatorVm, MonitorHangs, Event, MonitorRecovers, GuestStops,
         Reopen, vars
<1> QED
  BY <1>1, <1>2, <1>3, <1>4, Way_Continue

\* lock_destination is held by the rollback in its swap, in every state.
THEOREM WaysOpen == Spec => []WayInv
<1>1. Init => WayInv
  BY IdleFacts DEF Init, WayInv, HeldPcs
<1>2. IInv /\ WayInv /\ [Next]_vars => WayInv'
  BY Way_Step DEF IInv
<1> QED
  BY <1>1, <1>2, Invariance, PTL DEF Spec

\* No cascade is wedged for any number of requests, apps, VMs and shares: only an
\* answer to a command or a first greeting is waited for without a deadline (qmp.rs
\* execute and negotiate), and who holds lock_destination waits for nobody (the guard
\* lives as long as SubvolumeService::rollback, also when the request is dropped).
THEOREM NobodyWedged == Spec => []Unwedged
<1>1. ASSUME IInv, WayInv PROVE Unwedged
  <2> SUFFICES ASSUME NEW t \in Task, task[t] # Idle, ~ Unanswered(t)
               PROVE  \/ CanGo(t)
                      \/ task[t].pc = "guard" /\ \E o \in guard \ {t} : CanGo(o)
    BY DEF Unwedged
  <2> DEFINE r == task[t]
  <2>0. /\ TypeOK /\ r \in Record /\ ListInv /\ KindInv /\ r.pc \in Pcs /\ r.kind \in Kinds
    <3>1. TypeOK /\ r \in Record /\ ListInv /\ KindInv
      BY <1>1, TaskFacts DEF IInv, Base
    <3> QED
      BY <3>1, TaskFacts DEF Record
  <2>1. CASE r.pc = "guard"
    <3>1. CASE guard = {}
      BY <2>1, <3>1 DEF CanGo
    <3>2. CASE guard # {}
      <4>1. PICK o \in guard : o \in Task
        BY <2>0, <3>2 DEF TypeOK
      <4>2. task[o].pc \in HeldPcs
        BY <1>1, <4>1 DEF WayInv
      <4>3. o # t /\ CanGo(o)
        BY <2>1, <4>2 DEF HeldPcs, CanGo
      <4> QED
        BY <2>1, <4>1, <4>3
    <3> QED
      BY <3>1, <3>2
  <2>2. CASE r.pc \in {"apps", "reapps"}
    <3>1. r.todo \subseteq r.apps /\ r.apps \subseteq App
      BY <1>1, <2>0, <2>2 DEF ListInv, WayInv, Record
    <3> QED
      BY <2>2, <3>1 DEF CanGo
  <2>3. CASE r.pc \in {"smb", "nfs", "renfs", "resmb"}
    <3>1. r.todo \subseteq Share
      BY <2>0, <2>3 DEF ListInv, Share
    <3> QED
      BY <2>3, <3>1 DEF CanGo
  <2>4. CASE r.pc = "vms"
    <3>1. r.todo \subseteq Vm \cup VmId
      BY <2>0, <2>4 DEF ListInv, VmPcs, Record
    <3> QED
      BY <2>0, <2>4, <3>1 DEF CanGo
  <2>5. CASE r.pc = "revms"
    <3>1. r.kind = "rollback"
      BY <2>0, <2>5 DEF KindInv, ResumePcs
    <3>2. r.todo \subseteq VmId
      BY <2>0, <2>5, <3>1 DEF TypeOK, ListInv
    <3> QED
      BY <2>5, <3>2 DEF CanGo
  <2>6. CASE r.pc \in {"press", "quit", "greet"}
    <3>1. r.cur \in VmId
      BY <2>0, <2>6 DEF KindInv
    <3> QED
      BY <2>6, <3>1 DEF CanGo, Found
  <2>7. CASE r.pc \in {"deps", "wait", "kill", "check", "safety", "delete", "recreate", "unmount", "unlink", "done"}
    BY <2>0, <2>7 DEF CanGo
  <2> QED
    BY <2>0, <2>1, <2>2, <2>3, <2>4, <2>5, <2>6, <2>7
<1> QED
  BY <1>1, Invariance, WaysOpen, PTL

\* Two rollbacks are never inside the swap at once: none takes its safety snapshot of,
\* or deletes, what another is recreating (SubvolumeService::lock_destination).
THEOREM OneSwap ==
  Spec => [](\A t, o \in Task : task[t].pc \in HeldPcs /\ task[o].pc \in HeldPcs => t = o)
<1>1. IInv /\ WayInv =>
         \A t, o \in Task : task[t].pc \in HeldPcs /\ task[o].pc \in HeldPcs => t = o
  BY DEF IInv, Base, TypeOK, WayInv
<1> QED
  BY <1>1, Invariance, WaysOpen, PTL

=============================================================================
