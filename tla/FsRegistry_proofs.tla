---------------------------- MODULE FsRegistry_proofs ----------------------------
(***************************************************************************)
(* FsRegistry for every value of its constants: any number of requests,    *)
(* names and devices.  Destructive commands hit what was checked (IInv),   *)
(* and the registry agrees with the mount table and keeps its entries as   *)
(* long as nothing is to blame (RInv).                                     *)
(***************************************************************************)
EXTENDS FsRegistry, FiniteSetTheorems, TLAPS

\* block_mutations is held from the wait to the end of the request.
Critical(t) == task[t].op \in Mutators /\ task[t].pc # "wait"

\* What a request found out under the mutex still holds.
ExactTask(t) ==
    LET r == task[t]
    IN /\ r.op = "destroy" /\ r.pc \in {"verify", "umount"} => r.todo = r.fs.devs
       /\ r.op = "destroy" /\ r.pc \in {"umount", "wipe"} =>
             \A d \in r.todo : sb[d] \in {0, r.fs.uuid}
       /\ At(t, "create", "format") => sb[r.dev] = 0
       /\ At(t, "add", "cmd") => sb[r.dev] = 0 \/ "blind" \in blame

\* A look was out of date or saw too little.
Misled == blame \cap {"stale", "blind"} # {}

\* A member that is plugged in is on the list that device_wipe computed, unless the
\* list is short or the disk has come back since.
WipeTask(t) ==
    LET r == task[t]
    IN /\ At(t, "wipe", "fill") /\ r.dev \in member \cap present =>
             Misled \/ \E f \in r.list : r.dev \in f.devs
       /\ At(t, "wipe", "cmd") /\ r.dev \in member => Misled

\* What is invariant of one request: its arguments, who reaches which program
\* point, the mutex, and what it relies on.
Ready(t) ==
    LET r == task[t]
    IN /\ r.op \notin {"none", "list", "wipe"} => r.name \in Name
       /\ r.op \in {"create", "wipe", "add", "remove"} => r.dev \in Dev
       /\ r.pc \in {"mount", "check"} => r.op \in {"mount", "create"}
       /\ r.pc = "load" => r.op \in {"mount", "create", "unmount", "options", "destroy"}
       /\ Critical(t) => lock = t
       /\ ExactTask(t) /\ WipeTask(t)

MemberInv == \A d \in member : sb[d] # 0

IInv == TypeOK /\ MemberInv /\ \A t \in Task : Ready(t)

-----------------------------------------------------------------------------
USE FsRegistryAssumption
USE DEF Pcs, Mutators, Others

\* A step of a request that leaves the others alone.
Alone(t) ==
    /\ task' \in [Task -> Request \cup {Idle}]
    /\ \A o \in Task \ {t} : task'[o] = task[o]

\* The request goes on to pc with what it was asked for.
Moved(t, pc) ==
    /\ Alone(t)
    /\ task'[t].pc = pc
    /\ task'[t].op = task[t].op /\ task'[t].name = task[t].name /\ task'[t].dev = task[t].dev

\* It also keeps the filesystem it found.
Kept(t, pc) ==
    Moved(t, pc) /\ task'[t].fs = task[t].fs /\ task'[t].todo = task[t].todo

\* It has ended.
Over(t) ==
    /\ Alone(t) /\ task'[t] = Idle
    /\ lock' = IF lock = t THEN NoTask ELSE lock

\* The record of no request.
LEMMA IdleFacts ==
  /\ Idle.op = "none" /\ Idle.pc = "idle" /\ Idle.name = NoName /\ Idle.dev = NoName
  /\ Idle.want = 0 /\ Idle.fs = NoFs /\ Idle.list = {} /\ Idle.snap = EmptyState
  /\ Idle.todo = {} /\ EmptyState \in FsState
  BY DEF Idle, EmptyState, FsState, NoEntry, Entry

\* The record of a request.
LEMMA TaskFacts ==
  ASSUME TypeOK, NEW t \in Task
  PROVE  /\ task[t] \in Request \cup {Idle}
         /\ task[t].pc # "idle" => task[t] \in Request
         /\ task[t].fs \in Filesystem \cup {NoFs} /\ task[t].snap \in FsState
         /\ task[t].todo \subseteq Dev /\ task[t].list \subseteq Filesystem
         /\ task[t].fs.devs \subseteq Dev /\ task[t].fs.uuid \in Uuid \cup {0}
         /\ task[t].fs.at \in Name \cup {NoName}
<1>1. task[t] \in Request \cup {Idle}
  BY DEF TypeOK
<1>2. task[t].pc # "idle" => task[t] \in Request
  BY <1>1, IdleFacts
<1>3. /\ task[t].fs \in Filesystem \cup {NoFs} /\ task[t].snap \in FsState
      /\ task[t].todo \subseteq Dev /\ task[t].list \subseteq Filesystem
  BY <1>1, IdleFacts DEF Request
<1>4. /\ task[t].fs.devs \subseteq Dev /\ task[t].fs.uuid \in Uuid \cup {0}
      /\ task[t].fs.at \in Name \cup {NoName}
  BY <1>3 DEF Filesystem, NoFs
<1> QED
  BY <1>1, <1>2, <1>3, <1>4

\* Step sets one record.
LEMMA StepFacts ==
  ASSUME TypeOK, NEW t \in Task, NEW m \in Request \cup {Idle}, Step(t, m)
  PROVE  Alone(t) /\ task'[t] = m
  BY DEF TypeOK, Step, Alone

\* A request that ends.
LEMMA FinishFacts ==
  ASSUME TypeOK, NEW t \in Task, Finish(t)
  PROVE  Over(t)
<1>1. Idle \in Request \cup {Idle} /\ Step(t, Idle)
  BY DEF Finish
<1> QED
  BY <1>1, StepFacts DEF Finish, Over

\* Goto changes the program counter only.
LEMMA GotoFacts ==
  ASSUME TypeOK, NEW t \in Task, task[t].pc # "idle", NEW pc \in Pcs, Goto(t, pc)
  PROVE  Kept(t, pc)
<1>0. task[t] \in Request
  BY TaskFacts
<1> DEFINE m == [task[t] EXCEPT !.pc = pc]
<1>1. /\ m \in Request /\ m.pc = pc /\ m.op = task[t].op /\ m.name = task[t].name
      /\ m.dev = task[t].dev /\ m.fs = task[t].fs /\ m.todo = task[t].todo
  BY <1>0 DEF Request
<1>2. Step(t, m)
  BY DEF Goto
<1> HIDE DEF m
<1> QED
  BY <1>1, <1>2, StepFacts DEF Kept, Moved

\* What load_fs_state returns is a registry.
LEMMA LoadFacts ==
  ASSUME TypeOK
  PROVE  load_fs_state \in FsState /\ file.reg \in FsState
  BY IdleFacts DEF TypeOK, load_fs_state

\* A record of a list is a filesystem that was identified as mounted, with its
\* members, or one that blkid reported, with the devices it reported.
LEMMA ListOfFacts ==
  ASSUME TypeOK, NEW reg \in FsState, NEW known, known \subseteq Uuid,
         NEW scan, scan \subseteq present, NEW l \in ListOf(reg, known, scan), NEW f \in l
  PROVE  /\ f \in Filesystem
         /\ \A d : d \in f.devs <=>
                     /\ d \in IF f.uuid \in known THEN member ELSE scan
                     /\ sb[d] = f.uuid
<1>0. /\ Uuid \subseteq Name /\ NoName \in Name \cup {NoName}
      /\ member \subseteq Dev /\ scan \subseteq Dev
  BY DEF TypeOK, Name
<1>1. ASSUME NEW u \in Uuid PROVE filesystem_name_for_uuid(reg, u) \subseteq Name
  BY <1>0 DEF filesystem_name_for_uuid
<1>2. ASSUME NEW u \in Uuid, NEW n \in Name PROVE mounted_filesystem_name(reg, n, u) \subseteq Name
  BY <1>1 DEF mounted_filesystem_name
<1>3. PICK u \in known \cup ({sb[d] : d \in scan} \ {0}) :
         f \in IF u \in known THEN MountedRecords(reg, u) ELSE UnmountedRecords(reg, u, scan)
  BY DEF ListOf
<1>4. u \in Uuid
  BY <1>0, <1>3 DEF TypeOK
<1>5. CASE u \in known
  <2>0. PICK n \in Name : \E m \in mounted_filesystem_name(reg, n, u) :
           f = [name |-> m, uuid |-> u, at |-> n, devs |-> {d \in member : sb[d] = u}]
    BY <1>3, <1>5 DEF MountedRecords
  <2>1. PICK m \in mounted_filesystem_name(reg, n, u) :
           f = [name |-> m, uuid |-> u, at |-> n, devs |-> {d \in member : sb[d] = u}]
    BY <2>0
  <2>2. m \in Name
    BY <1>2, <1>4
  <2> QED
    BY <1>0, <1>4, <1>5, <2>1, <2>2 DEF Filesystem
<1>6. CASE u \notin known
  <2>1. PICK m \in filesystem_name_for_uuid(reg, u) :
           f = [name |-> m, uuid |-> u, at |-> NoName, devs |-> {d \in scan : sb[d] = u}]
    BY <1>3, <1>6 DEF UnmountedRecords
  <2>2. m \in Name
    BY <1>1, <1>4
  <2> QED
    BY <1>0, <1>4, <1>6, <2>1, <2>2 DEF Filesystem
<1> QED
  BY <1>5, <1>6

\* A list holds records of filesystems.
LEMMA ListFacts ==
  ASSUME TypeOK, NEW reg \in FsState, NEW l \in list_uncached(reg)
  PROVE  l \subseteq Filesystem
<1>1. PICK known \in SUBSET {u \in Uuid : Mounted(u)}, scan \in {{}, present} :
         l \in ListOf(reg, known, scan)
  BY DEF list_uncached
<1>2. known \subseteq Uuid /\ scan \subseteq present
  OBVIOUS
<1> QED
  BY <1>1, <1>2, ListOfFacts

\* A complete list has every member that is plugged in.
LEMMA ListComplete ==
  ASSUME TypeOK, NEW reg \in FsState, NEW l \in list_complete(reg),
         NEW d \in member \cap present, sb[d] # 0
  PROVE  \E f \in l : d \in f.devs
<1> DEFINE u == sb[d]
           known == {x \in Uuid : Mounted(x)}
           named == {f \in l : f.uuid = u}
<1>1. l \in ListOf(reg, known, present) /\ known \subseteq Uuid /\ present \subseteq present
  BY DEF list_complete
<1>2. Cardinality(named) = 1
  <2>1. u \in known \cup ({sb[x] : x \in present} \ {0})
    OBVIOUS
  <2> QED
    BY <1>1, <2>1 DEF ListOf
<1>3. named # {}
  <2> HIDE DEF named
  <2> QED
    BY <1>2, FS_EmptySet
<1>4. PICK f \in l : f.uuid = u
  BY <1>3
<1> HIDE DEF known
<1>5. \A x : x \in f.devs <=>
                x \in (IF f.uuid \in known THEN member ELSE present) /\ sb[x] = f.uuid
  BY <1>1, ListOfFacts
<1> QED
  BY <1>4, <1>5

-----------------------------------------------------------------------------
(* How a step of one request leaves the others ready.                        *)

\* The type invariant without the requests.
WorldOK ==
    /\ sb \in [Dev -> Uuid \cup {0}]
    /\ member \subseteq Dev /\ present \subseteq Dev
    /\ mnt \in [Name -> Uuid \cup {0}]
    /\ dirs \subseteq Name /\ boot \subseteq Name \cup {NoName}
    /\ formatted \in 0 .. MaxUuid
    /\ file \in [ok : BOOLEAN, reg : FsState]
    /\ cache \in [full : BOOLEAN, list : SUBSET Filesystem]
    /\ events \in 0 .. MaxEvents
    /\ blame \subseteq {"stale", "blind", "file"}

\* Only the holder of block_mutations puts a superblock on a device.
Calm(t) ==
    /\ lock # t => (\A d \in Dev : sb'[d] \in {sb[d], 0}) /\ member' \subseteq member
    /\ present' \subseteq present
    /\ blame \subseteq blame'

\* Another request stays ready.
LEMMA Ready_Others ==
  ASSUME IInv, NEW t \in Task, Alone(t), Calm(t), NEW o \in Task, o # t,
         lock = o => lock' = o
  PROVE  Ready(o)'
<1>0. Ready(o) /\ task'[o] = task[o] /\ TypeOK
  BY DEF IInv, Alone
<1>1. CASE ~ Critical(o)
  BY <1>0, <1>1 DEF Ready, Critical, ExactTask, WipeTask, At
<1>2. CASE Critical(o)
  <2>1. lock = o /\ lock' = o
    BY <1>0, <1>2 DEF Ready
  <2>2. /\ \A d \in Dev : sb'[d] \in {sb[d], 0}
        /\ member' \subseteq member /\ present' \subseteq present /\ blame \subseteq blame'
    BY <2>1 DEF Calm
  <2>3. task[o].todo \subseteq Dev
    BY <1>0, TaskFacts
  <2>4. ExactTask(o)'
    BY <1>0, <2>2, <2>3 DEF Ready, ExactTask, At
  <2>5. WipeTask(o)'
    BY <1>0, <2>2 DEF Ready, WipeTask, Misled, At
  <2> QED
    BY <1>0, <2>1, <2>4, <2>5 DEF Ready, Critical
<1> QED
  BY <1>1, <1>2

\* A step of a request keeps the invariant when it leaves the request ready.
LEMMA Compose ==
  ASSUME IInv, NEW t \in Task, Alone(t), Calm(t), WorldOK', MemberInv', Ready(t)',
         lock' \in Task \cup {NoTask}, \A o \in Task \ {t} : lock = o => lock' = o
  PROVE  IInv'
<1>1. \A o \in Task : Ready(o)'
  BY Ready_Others
<1>2. TypeOK'
  <2>1. task' \in [Task -> Request \cup {Idle}]
    BY DEF Alone
  <2>2. \A o \in Task :
           /\ task'[o].op \notin {"none", "list", "wipe"} => task'[o].name \in Name
           /\ task'[o].op \in {"create", "wipe", "add", "remove"} => task'[o].dev \in Dev
    BY <1>1 DEF Ready
  <2> QED
    BY <2>1, <2>2 DEF WorldOK, TypeOK
<1> QED
  BY <1>1, <1>2 DEF IInv

\* A request that ends.
LEMMA Over_Step ==
  ASSUME IInv, NEW t \in Task, Over(t), Calm(t), WorldOK', MemberInv'
  PROVE  IInv'
<1>1. Ready(t)'
  BY IdleFacts DEF Over, Ready, Critical, ExactTask, WipeTask, At
<1>2. /\ Alone(t) /\ lock' \in Task \cup {NoTask}
      /\ \A o \in Task \ {t} : lock = o => lock' = o
  BY DEF Over, IInv, TypeOK
<1> QED
  BY <1>1, <1>2, Compose

\* A request that goes on.
LEMMA Moved_Step ==
  ASSUME IInv, NEW t \in Task, NEW pc, Moved(t, pc), task[t].pc # "wait", UNCHANGED lock,
         Calm(t), WorldOK', MemberInv',
         pc \in {"mount", "check"} => task[t].op \in {"mount", "create"},
         pc = "load" => task[t].op \in {"mount", "create", "unmount", "options", "destroy"},
         ExactTask(t)', WipeTask(t)'
  PROVE  IInv'
<1>1. Ready(t) /\ lock \in Task \cup {NoTask} /\ Alone(t)
  BY DEF IInv, TypeOK, Moved
<1>2. Ready(t)'
  BY <1>1 DEF Ready, Critical, Moved
<1> QED
  BY <1>1, <1>2, Compose

\* A request that goes on to a point where it relies on nothing.
LEMMA Plain_Step ==
  ASSUME IInv, NEW t \in Task, NEW pc, Moved(t, pc), task[t].pc # "wait", UNCHANGED lock,
         Calm(t), WorldOK', MemberInv',
         pc \notin {"verify", "umount", "wipe", "format", "cmd", "fill"},
         pc \in {"mount", "check"} => task[t].op \in {"mount", "create"},
         pc = "load" => task[t].op \in {"mount", "create", "unmount", "options", "destroy"}
  PROVE  IInv'
<1>1. ExactTask(t)' /\ WipeTask(t)'
  BY DEF ExactTask, WipeTask, At, Moved
<1> QED
  BY <1>1, Moved_Step

\* A step that touches no device.
LEMMA Untouched ==
  ASSUME IInv, NEW t, UNCHANGED <<sb, member, present>>, blame \subseteq blame'
  PROVE  Calm(t) /\ MemberInv'
  BY DEF IInv, Calm, MemberInv

-----------------------------------------------------------------------------
(* Arrival, get and list.                                                    *)

\* A list is searched, not added to.
LEMMA SelectFacts ==
  ASSUME NEW list, NEW name, NEW want
  PROVE  select_filesystem_for_mount(list, name, want) \subseteq list
  BY DEF select_filesystem_for_mount

\* A request goes on with a filesystem.
Takes(t, f, pc) ==
    Step(t, [task[t] EXCEPT !.pc = pc, !.fs = f, !.want = 0, !.list = {}, !.todo = f.devs])

\* A request takes the filesystem it found.
LEMMA WithFacts ==
  ASSUME TypeOK, NEW t \in Task, task[t].pc # "idle", NEW pc \in Pcs,
         NEW f \in Filesystem \cup {NoFs}, Takes(t, f, pc)
  PROVE  Moved(t, pc) /\ task'[t].fs = f /\ task'[t].todo = f.devs
<1>0. task[t] \in Request /\ f.devs \subseteq Dev
  BY TaskFacts DEF Filesystem, NoFs
<1> DEFINE m == [task[t] EXCEPT !.pc = pc, !.fs = f, !.want = 0, !.list = {}, !.todo = f.devs]
<1>1. m \in Request
  <2>1. {} \in SUBSET Filesystem /\ 0 \in Uuid \cup {0} /\ f.devs \in SUBSET Dev
    BY <1>0
  <2> QED
    BY <1>0, <2>1, ZenonT(60) DEF Request
<1>2. /\ m.pc = pc /\ m.op = task[t].op /\ m.name = task[t].name
      /\ m.dev = task[t].dev /\ m.fs = f /\ m.todo = f.devs
  BY <1>0 DEF Request
<1>3. Step(t, m)
  BY DEF Takes
<1> HIDE DEF m
<1> QED
  BY <1>1, <1>2, <1>3, StepFacts DEF Moved

\* What becomes of a request that has the list.
LEMMA Dispatch_Task ==
  ASSUME TypeOK, NEW t \in Task, task[t].pc # "idle", NEW list, list \subseteq Filesystem,
         NEW want, Dispatch(t, list, want)
  PROVE  \/ Over(t)
         \/ /\ UNCHANGED lock /\ task'[t].todo = task'[t].fs.devs
            /\ \E pc \in {"verify", "inval", "get", "blank"} : Moved(t, pc)
         \/ /\ UNCHANGED lock /\ task[t].op \in {"unmount", "options"} /\ Moved(t, "load")
         \/ /\ UNCHANGED lock /\ Moved(t, "cmd")
            /\ \/ task[t].op = "remove"
               \/ /\ task[t].op = "wipe" /\ task[t].dev \in present
                  /\ ~ \E f \in list : task[t].dev \in f.devs
<1> DEFINE found == select_filesystem_for_mount(list, task[t].name, want)
<1>1. NoFs \in Filesystem \cup {NoFs}
  OBVIOUS
<1>2. \A f \in found : f \in Filesystem \cup {NoFs}
  BY SelectFacts
<1>3. ASSUME NEW f \in Filesystem \cup {NoFs}, NEW pc \in Pcs, Takes(t, f, pc)
      PROVE  Moved(t, pc) /\ task'[t].fs = f /\ task'[t].todo = f.devs
  BY <1>3, WithFacts
<1>4. Finish(t) => Over(t)
  BY FinishFacts
<1>5. \/ Finish(t)
      \/ Takes(t, NoFs, "inval") /\ UNCHANGED lock
      \/ /\ task[t].op = "wipe" /\ task[t].dev \in present
         /\ ~ \E f \in list : task[t].dev \in f.devs
         /\ Takes(t, NoFs, "cmd") /\ UNCHANGED lock
      \/ Takes(t, task[t].fs, "blank") /\ UNCHANGED lock
      \/ \E f \in found :
            /\ UNCHANGED lock
            /\ \/ Takes(t, f, "verify") \/ Takes(t, f, "get")
               \/ task[t].op \in {"unmount", "options"} /\ Takes(t, f, "load")
               \/ task[t].op = "remove" /\ Takes(t, f, "cmd")
  BY DEF Dispatch, With, Takes, InUse
<1>6. task[t].fs \in Filesystem \cup {NoFs}
  BY TaskFacts
<1> HIDE DEF found
<1> QED
  BY <1>1, <1>2, <1>3, <1>4, <1>5, <1>6

\* A request arrives.
LEMMA Start_Step ==
  ASSUME IInv, NEW t \in Task, NEW op \in Mutators \cup Others, NEW name \in Name \cup {NoName},
         NEW dev \in Dev \cup {NoName}, Start(t, op, name, dev),
         op \notin {"list", "wipe"} => name \in Name,
         op \in {"create", "wipe", "add", "remove"} => dev \in Dev
  PROVE  IInv'
<1> DEFINE pc == IF op \in Mutators THEN "wait" ELSE "get"
           m == [Idle EXCEPT !.op = op, !.name = name, !.dev = dev, !.pc = pc]
<1>1. m \in Request /\ m.op = op /\ m.pc = pc /\ m.name = name /\ m.dev = dev
  BY IdleFacts, ZenonT(60) DEF Request, Idle
<1>2. Step(t, m) /\ UNCHANGED <<kernel, file, cache, lock, boot, blame>>
      /\ events' = events + 1 /\ events < MaxEvents
  BY DEF Start
<1> HIDE DEF m
<1>3. TypeOK
  BY DEF IInv
<1>4. Alone(t) /\ task'[t] = m
  BY <1>1, <1>2, <1>3, StepFacts
<1>5. WorldOK'
  BY <1>2, <1>3 DEF WorldOK, TypeOK, kernel
<1>6. Calm(t) /\ MemberInv'
  BY <1>2, Untouched DEF kernel
<1>7. Ready(t)'
  BY <1>1, <1>4 DEF Ready, Critical, ExactTask, WipeTask, At
<1>8. lock' \in Task \cup {NoTask} /\ \A o \in Task \ {t} : lock = o => lock' = o
  BY <1>2, <1>3 DEF TypeOK
<1> QED
  BY <1>4, <1>5, <1>6, <1>7, <1>8, Compose

\* A request gets block_mutations when nobody has it.
LEMMA AcquireMutex_Step ==
  ASSUME IInv, NEW t \in Task, AcquireMutex(t)
  PROVE  IInv'
<1>1. /\ TypeOK /\ Ready(t) /\ task[t].pc = "wait" /\ lock = NoTask /\ lock' = t
      /\ UNCHANGED <<kernel, file, cache, boot, events, blame>>
  BY DEF IInv, AcquireMutex
<1>2. PICK pc \in {"plan", "get"} : Goto(t, pc)
  BY DEF AcquireMutex
<1>3. Kept(t, pc)
  BY <1>1, <1>2, GotoFacts
<1>4. WorldOK'
  BY <1>1 DEF WorldOK, TypeOK, kernel
<1>5. Calm(t) /\ MemberInv'
  BY <1>1, Untouched DEF kernel
<1>6. Ready(t)'
  BY <1>1, <1>3 DEF Ready, Critical, ExactTask, WipeTask, At, Kept, Moved
<1>7. Alone(t)
  BY <1>3 DEF Kept, Moved
<1> QED
  BY <1>1, <1>4, <1>5, <1>6, <1>7, Compose

\* A request that has its list, fresh or not.
LEMMA Dispatch_Step ==
  ASSUME IInv, NEW t \in Task, task[t].pc \in {"get", "fill"}, NEW list,
         list \subseteq Filesystem, NEW want, Dispatch(t, list, want),
         UNCHANGED <<sb, member, present>>, blame \subseteq blame', WorldOK',
         /\ task[t].op = "wipe" /\ task[t].dev \in member \cap present
         => Misled' \/ \E f \in list : task[t].dev \in f.devs
  PROVE  IInv'
<1>0. TypeOK /\ task[t].pc \notin {"idle", "wait"}
  BY DEF IInv
<1>1. Calm(t) /\ MemberInv'
  BY Untouched
<1>2. CASE Over(t)
  BY <1>1, <1>2, Over_Step
<1>3. ASSUME UNCHANGED lock, task'[t].todo = task'[t].fs.devs,
             NEW pc \in {"verify", "inval", "get", "blank"}, Moved(t, pc)
      PROVE  IInv'
  <2>1. ExactTask(t)' /\ WipeTask(t)'
    BY <1>3 DEF ExactTask, WipeTask, At, Moved
  <2> QED
    BY <1>0, <1>1, <1>3, <2>1, Moved_Step
<1>4. CASE UNCHANGED lock /\ task[t].op \in {"unmount", "options"} /\ Moved(t, "load")
  BY <1>0, <1>1, <1>4, Plain_Step
<1>5. CASE /\ UNCHANGED lock /\ Moved(t, "cmd")
           /\ \/ task[t].op = "remove"
              \/ /\ task[t].op = "wipe" /\ task[t].dev \in present
                 /\ ~ \E f \in list : task[t].dev \in f.devs
  <2>1. ExactTask(t)'
    BY <1>5 DEF ExactTask, At, Moved
  <2>2. WipeTask(t)'
    BY <1>5 DEF WipeTask, At, Moved
  <2> QED
    BY <1>0, <1>1, <1>5, <2>1, <2>2, Moved_Step
<1> QED
  BY <1>0, <1>2, <1>3, <1>4, <1>5, Dispatch_Task

\* list, from the cache or not.
LEMMA Get_Step ==
  ASSUME IInv, NEW t \in Task,
         GetLegacy(t) \/ GetCached(t) \/ GetFresh(t) \/ GetFails(t) \/ Fill(t)
  PROVE  IInv'
<1>0. /\ TypeOK /\ Ready(t) /\ task[t].pc \in {"get", "fill"}
      /\ UNCHANGED <<kernel, file, boot>> /\ blame \subseteq blame'
      /\ blame' \subseteq {"stale", "blind", "file"} /\ events' \in 0 .. MaxEvents
  <2>1. TypeOK /\ Ready(t)
    BY DEF IInv
  <2>2. /\ task[t].pc \in {"get", "fill"} /\ UNCHANGED <<kernel, file, boot>>
        /\ blame \subseteq blame' /\ blame' \subseteq {"stale", "blind", "file"}
    BY <2>1 DEF TypeOK, GetLegacy, GetCached, GetFresh, GetFails, Fill, Blame
  <2>3. events' = events \/ (events < MaxEvents /\ events' = events + 1)
    BY DEF GetLegacy, GetCached, GetFresh, GetFails, Fill, Look
  <2> QED
    BY <2>1, <2>2, <2>3 DEF TypeOK
<1>1. CASE GetLegacy(t)
  <2>1. WorldOK'
    BY <1>0, <1>1 DEF GetLegacy, WorldOK, TypeOK, kernel
  <2>2. Over(t)
    BY <1>0, <1>1, FinishFacts DEF GetLegacy
  <2> QED
    BY <1>0, <2>1, <2>2, Over_Step, Untouched DEF kernel
<1>2. CASE GetCached(t)
  <2>1. /\ cache.list \subseteq Filesystem /\ UNCHANGED cache
        /\ Dispatch(t, cache.list, Expected(t))
        /\ ~ Misled' => cache.list \in list_complete(load_fs_state)
    BY <1>0, <1>2 DEF GetCached, TypeOK, Blame, Misled
  <2>2. WorldOK'
    BY <1>0, <2>1 DEF WorldOK, TypeOK, kernel
  <2>3. ASSUME task[t].dev \in member \cap present, ~ Misled'
        PROVE  \E f \in cache.list : task[t].dev \in f.devs
    <3>1. sb[task[t].dev] # 0
      BY <2>3 DEF IInv, MemberInv
    <3> QED
      BY <1>0, <2>1, <2>3, <3>1, LoadFacts, ListComplete
  <2> QED
    BY <1>0, <2>1, <2>2, <2>3, Dispatch_Step DEF kernel
<1>3. CASE GetFresh(t)
  <2>1. PICK l \in list_uncached(load_fs_state) :
           /\ Step(t, [task[t] EXCEPT !.pc = "fill", !.list = l, !.want = Expected(t)])
           /\ Misled' \/ l \in list_complete(load_fs_state)
    BY <1>3 DEF GetFresh, Blame, Misled
  <2>2. /\ UNCHANGED <<cache, lock>> /\ l \subseteq Filesystem /\ Expected(t) # Legacy
        /\ task[t].pc = "get"
    BY <1>0, <1>3, LoadFacts, ListFacts DEF GetFresh
  <2>3. task[t] \in Request
    BY <1>0, TaskFacts
  <2>4. Expected(t) \in Uuid \cup {0}
    <3>1. task[t].op \notin {"list", "wipe"} => load_fs_state[task[t].name].uuid \in Uuid \cup {0, Legacy}
      BY <1>0, <2>3, LoadFacts DEF Ready, Request, FsState, Entry
    <3>2. task[t].want \in Uuid \cup {0}
      BY <2>3 DEF Request
    <3> QED
      BY <2>2, <3>1, <3>2 DEF Expected
  <2> DEFINE m == [task[t] EXCEPT !.pc = "fill", !.list = l, !.want = Expected(t)]
  <2>5. /\ m \in Request /\ m.pc = "fill" /\ m.op = task[t].op /\ m.name = task[t].name
        /\ m.dev = task[t].dev /\ m.list = l
    BY <2>2, <2>3, <2>4 DEF Request
  <2>6. Step(t, m)
    BY <2>1
  <2> HIDE DEF m
  <2>7. Moved(t, "fill") /\ task'[t].list = l
    BY <1>0, <2>5, <2>6, StepFacts DEF Moved
  <2>8. WorldOK'
    BY <1>0, <2>2 DEF WorldOK, TypeOK, kernel
  <2>9. Misled' \/ \A d \in member \cap present : \E f \in l : d \in f.devs
    BY <1>0, <2>1, LoadFacts, ListComplete DEF IInv, MemberInv
  <2>10. ExactTask(t)' /\ WipeTask(t)'
    BY <1>0, <2>7, <2>9 DEF ExactTask, WipeTask, At, Moved, kernel
  <2>11. Calm(t) /\ MemberInv'
    BY <1>0, Untouched DEF kernel
  <2> QED
    BY <1>0, <2>2, <2>7, <2>8, <2>10, <2>11, Moved_Step
<1>4. CASE Fill(t)
  <2>1. /\ task[t].pc = "fill" /\ cache' = [full |-> TRUE, list |-> task[t].list]
        /\ Dispatch(t, task[t].list, task[t].want)
    BY <1>4 DEF Fill
  <2>2. task[t].list \subseteq Filesystem
    BY <1>0, TaskFacts
  <2>3. WorldOK'
    BY <1>0, <2>1, <2>2 DEF WorldOK, TypeOK, kernel
  <2>4. task[t].op = "wipe" /\ task[t].dev \in member \cap present =>
           Misled' \/ \E f \in task[t].list : task[t].dev \in f.devs
    BY <1>0, <2>1 DEF Ready, WipeTask, Misled, At
  <2> QED
    BY <1>0, <2>1, <2>2, <2>3, <2>4, Dispatch_Step DEF kernel
<1>5. CASE GetFails(t)
  <2>1. /\ task[t].pc = "get" /\ UNCHANGED cache
        /\ \/ /\ task[t].op = "wipe" /\ Takes(t, NoFs, "cmd") /\ UNCHANGED lock /\ Misled'
           \/ Takes(t, task[t].fs, "blank") /\ UNCHANGED lock
           \/ Finish(t)
    BY <1>5 DEF GetFails, With, Takes, Blame, Misled
  <2>2. WorldOK' /\ Calm(t) /\ MemberInv'
    BY <1>0, <2>1, Untouched DEF WorldOK, TypeOK, kernel
  <2>3. CASE task[t].op = "wipe" /\ Takes(t, NoFs, "cmd") /\ UNCHANGED lock /\ Misled'
    <3>1. Moved(t, "cmd")
      BY <1>0, <2>3, WithFacts
    <3>2. ExactTask(t)' /\ WipeTask(t)'
      BY <2>3, <3>1 DEF ExactTask, WipeTask, At, Moved
    <3> QED
      BY <2>1, <2>2, <2>3, <3>1, <3>2, Moved_Step
  <2>4. CASE Takes(t, task[t].fs, "blank") /\ UNCHANGED lock
    <3>1. Moved(t, "blank")
      BY <1>0, <2>1, <2>4, WithFacts, TaskFacts
    <3> QED
      BY <2>1, <2>2, <2>4, <3>1, Plain_Step
  <2>5. CASE Finish(t)
    BY <1>0, <2>2, <2>5, FinishFacts, Over_Step
  <2> QED
    BY <2>1, <2>3, <2>4, <2>5
<1> QED
  BY <1>1, <1>2, <1>3, <1>4, <1>5

-----------------------------------------------------------------------------
(* create, mount, unmount and destroy.                                       *)

\* A mutator that no longer waits has the mutex.
LEMMA Critical_Lock ==
  ASSUME IInv, NEW t \in Task, task[t].op \in Mutators, task[t].pc # "wait"
  PROVE  lock = t
  BY DEF IInv, Ready, Critical

\* create formats a device it has seen blank under the mutex.
LEMMA Create_Step ==
  ASSUME IInv, NEW t \in Task, CreatePlan(t) \/ revalidate_create_targets(t) \/ CreateFormat(t)
  PROVE  IInv'
<1>0. /\ TypeOK /\ Ready(t) /\ task[t].op = "create" /\ task[t].pc \notin {"idle", "wait"}
      /\ task[t].name \in Name /\ task[t].dev \in Dev
      /\ UNCHANGED <<present, mnt, file, cache, boot, events>> /\ blame \subseteq blame'
      /\ blame' \subseteq {"stale", "blind", "file"}
  BY DEF IInv, TypeOK, Ready, CreatePlan, revalidate_create_targets, CreateFormat, At, Blame,
         kernel
<1>1. CASE CreatePlan(t)
  <2>1. WorldOK' /\ UNCHANGED <<sb, member, present>>
    BY <1>0, <1>1 DEF CreatePlan, WorldOK, TypeOK, kernel
  <2>2. Over(t) \/ (Kept(t, "reserve") /\ UNCHANGED lock)
    BY <1>0, <1>1, FinishFacts, GotoFacts DEF CreatePlan
  <2> QED
    BY <1>0, <2>1, <2>2, Untouched, Over_Step, Plain_Step DEF Kept
<1>2. CASE revalidate_create_targets(t)
  <2>1. WorldOK' /\ UNCHANGED <<sb, member, present>>
    BY <1>0, <1>2 DEF revalidate_create_targets, WorldOK, TypeOK
  <2>2. Over(t) \/ (Kept(t, "format") /\ UNCHANGED lock /\ sb[task[t].dev] = 0)
    BY <1>0, <1>2, FinishFacts, GotoFacts DEF revalidate_create_targets, Blank
  <2>3. Calm(t) /\ MemberInv'
    BY <1>0, <2>1, Untouched
  <2>4. CASE Kept(t, "format") /\ UNCHANGED lock /\ sb[task[t].dev] = 0
    <3>1. ExactTask(t)' /\ WipeTask(t)'
      BY <1>0, <2>1, <2>4 DEF ExactTask, WipeTask, At, Kept, Moved
    <3> QED
      BY <1>0, <2>1, <2>3, <2>4, <3>1, Moved_Step DEF Kept
  <2> QED
    BY <2>1, <2>2, <2>3, <2>4, Over_Step
<1>3. CASE CreateFormat(t)
  <2>0. lock = t
    BY <1>0, Critical_Lock
  <2>1. CASE Finish(t) /\ dirs' = dirs \ {task[t].name} /\ UNCHANGED <<sb, member, formatted>>
    <3>1. WorldOK'
      BY <1>0, <2>1 DEF WorldOK, TypeOK
    <3> QED
      BY <1>0, <2>1, <3>1, Untouched, FinishFacts, Over_Step
  <2> DEFINE u == formatted + 1
             f == [name |-> task[t].name, uuid |-> u, devs |-> {task[t].dev}, at |-> NoName]
             m == [task[t] EXCEPT !.pc = "mount", !.fs = f]
  <2>2. CASE /\ formatted < MaxUuid /\ sb' = [sb EXCEPT ![task[t].dev] = u]
             /\ member' = member \cup {task[t].dev} /\ formatted' = u
             /\ Step(t, m) /\ UNCHANGED <<dirs, lock>>
    <3>1. /\ formatted < MaxUuid /\ sb' = [sb EXCEPT ![task[t].dev] = u]
          /\ member' = member \cup {task[t].dev} /\ formatted' = u
          /\ Step(t, m) /\ UNCHANGED <<dirs, lock>>
      BY <2>2
    <3>2. u \in Uuid /\ u # 0
      BY <1>0, <3>1 DEF TypeOK, Uuid
    <3>3. f \in Filesystem
      BY <1>0, <3>2 DEF Filesystem
    <3> HIDE DEF f
    <3>4. /\ m \in Request /\ m.pc = "mount" /\ m.op = task[t].op /\ m.name = task[t].name
          /\ m.dev = task[t].dev
      <4>1. task[t] \in Request /\ f \in Filesystem \cup {NoFs}
        BY <1>0, <3>3, TaskFacts
      <4> QED
        BY <4>1, ZenonT(60) DEF Request
    <3> HIDE DEF m
    <3>5. Moved(t, "mount")
      BY <1>0, <3>1, <3>4, StepFacts DEF Moved
    <3>6. WorldOK'
      BY <1>0, <3>1, <3>2 DEF WorldOK, TypeOK, Uuid
    <3>7. Calm(t)
      BY <1>0, <2>0 DEF Calm
    <3>8. MemberInv'
      BY <1>0, <3>1, <3>2 DEF IInv, MemberInv, TypeOK
    <3> QED
      BY <1>0, <3>1, <3>5, <3>6, <3>7, <3>8, Plain_Step
  <2> QED
    BY <1>3, <2>1, <2>2 DEF CreateFormat
<1> QED
  BY <1>1, <1>2, <1>3

\* mount changes what is mounted where, and no device.
LEMMA Mount_Step ==
  ASSUME IInv, NEW t \in Task, MountVerify(t) \/ MountCommand(t) \/ MountCheck(t)
  PROVE  IInv'
<1>0. /\ TypeOK /\ Ready(t) /\ task[t].op \in {"mount", "create"}
      /\ task[t].pc \notin {"idle", "wait"} /\ task[t].name \in Name
      /\ UNCHANGED <<sb, member, present, formatted, file, cache, boot, events>>
      /\ blame \subseteq blame' /\ blame' \subseteq {"stale", "blind", "file"}
  <2>1. TypeOK /\ Ready(t) /\ task[t].pc \notin {"idle", "wait"}
    BY DEF IInv, MountVerify, MountCommand, MountCheck, At
  <2>2. task[t].op \in {"mount", "create"}
    BY <2>1 DEF Ready, MountVerify, MountCommand, MountCheck, At
  <2>3. task[t].name \in Name
    BY <2>1, <2>2 DEF Ready
  <2>4. /\ UNCHANGED <<sb, member, present, formatted, file, cache, boot, events>>
        /\ blame \subseteq blame' /\ blame' \subseteq {"stale", "blind", "file"}
    BY <2>1 DEF TypeOK, MountVerify, MountCommand, MountCheck, Blame
  <2> QED
    BY <2>1, <2>2, <2>3, <2>4
<1>1. Calm(t) /\ MemberInv'
  BY <1>0, Untouched
<1>2. WorldOK'
  <2>1. /\ dirs' \in {dirs, dirs \cup {task[t].name}}
        /\ mnt' = mnt \/ \E u \in Uuid \cup {0} : mnt' = [mnt EXCEPT ![task[t].name] = u]
    <3>1. CASE MountVerify(t)
      BY <3>1 DEF MountVerify
    <3>2. CASE MountCommand(t)
      BY <3>2 DEF MountCommand
    <3>3. CASE MountCheck(t)
      BY <3>3 DEF MountCheck
    <3> QED
      BY <3>1, <3>2, <3>3
  <2>2. mnt' \in [Name -> Uuid \cup {0}] /\ dirs' \subseteq Name
    BY <1>0, <2>1 DEF TypeOK
  <2> QED
    BY <1>0, <2>2 DEF WorldOK, TypeOK
<1>3. \/ Finish(t)
      \/ /\ UNCHANGED lock
         /\ \E pc \in {"inval", "mount", "check", "load"} : Goto(t, pc)
  BY DEF MountVerify, MountCommand, MountCheck
<1>4. \/ Over(t)
      \/ /\ UNCHANGED lock
         /\ \E pc \in {"inval", "mount", "check", "load"} : Kept(t, pc)
  BY <1>0, <1>3, FinishFacts, GotoFacts
<1> QED
  BY <1>0, <1>1, <1>2, <1>4, Over_Step, Plain_Step DEF Kept

\* destroy verifies, unmounts and wipes what it verified.
LEMMA Unmount_Step ==
  ASSUME IInv, NEW t \in Task, UnmountVerify(t) \/ Umount(t) \/ DestroyWipe(t)
  PROVE  IInv'
<1>0. /\ TypeOK /\ Ready(t) /\ task[t].op \in {"unmount", "destroy"}
      /\ task[t].pc \in {"verify", "umount", "wipe"} /\ task[t].name \in Name
      /\ UNCHANGED <<present, formatted, file, cache, boot, events>>
      /\ blame \subseteq blame' /\ blame' \subseteq {"stale", "blind", "file"}
  <2>1. /\ TypeOK /\ Ready(t) /\ task[t].op \in {"unmount", "destroy"}
        /\ task[t].pc \in {"verify", "umount", "wipe"}
    BY DEF IInv, UnmountVerify, Umount, DestroyWipe, At
  <2>2. task[t].name \in Name
    BY <2>1 DEF Ready
  <2>3. /\ UNCHANGED <<present, formatted, file, cache, boot, events>>
        /\ blame \subseteq blame' /\ blame' \subseteq {"stale", "blind", "file"}
    BY <2>1 DEF TypeOK, UnmountVerify, Umount, DestroyWipe, Blame, kernel
  <2> QED
    BY <2>1, <2>2, <2>3
<1>1. CASE UnmountVerify(t)
  <2>1. WorldOK' /\ UNCHANGED <<sb, member>> /\ task[t].pc = "verify"
    BY <1>0, <1>1 DEF UnmountVerify, WorldOK, TypeOK, kernel
  <2>2. Calm(t) /\ MemberInv'
    BY <1>0, <2>1, Untouched
  <2>3. \/ Over(t)
        \/ Kept(t, "umount") /\ UNCHANGED lock /\ (task[t].op = "destroy" => OnDisk(task[t].fs))
    BY <1>0, <1>1, FinishFacts, GotoFacts DEF UnmountVerify
  <2>4. CASE Kept(t, "umount") /\ UNCHANGED lock /\ (task[t].op = "destroy" => OnDisk(task[t].fs))
    <3>1. task[t].op = "destroy" => task[t].todo = task[t].fs.devs
      BY <1>0, <2>1 DEF Ready, ExactTask
    <3>2. ExactTask(t)' /\ WipeTask(t)'
      BY <1>0, <2>1, <2>4, <3>1 DEF ExactTask, WipeTask, At, Kept, Moved, OnDisk
    <3> QED
      BY <1>0, <2>1, <2>2, <2>4, <3>2, Moved_Step DEF Kept
  <2> QED
    BY <2>1, <2>2, <2>3, <2>4, Over_Step
<1>2. CASE Umount(t)
  <2>1. UNCHANGED <<sb, member>> /\ task[t].pc = "umount"
    BY <1>2 DEF Umount
  <2>2. Calm(t) /\ MemberInv'
    BY <1>0, <2>1, Untouched
  <2>3. mnt' \in [Name -> Uuid \cup {0}] /\ dirs' \subseteq Name
    <3> DEFINE after == IF task[t].fs.at = NoName THEN mnt ELSE [mnt EXCEPT ![task[t].fs.at] = 0]
    <3>1. after \in [Name -> Uuid \cup {0}]
      BY <1>0 DEF TypeOK
    <3>2. mnt' = mnt \/ mnt' = after \/ \E n \in Name : mnt' = [after EXCEPT ![n] = 0]
      BY <1>2 DEF Umount
    <3>3. dirs' \subseteq dirs
      BY <1>2 DEF Umount
    <3> HIDE DEF after
    <3> QED
      BY <1>0, <3>1, <3>2, <3>3 DEF TypeOK
  <2>4. WorldOK'
    BY <1>0, <2>1, <2>3 DEF WorldOK, TypeOK
  <2>5. \/ Over(t)
        \/ UNCHANGED lock /\ task[t].op = "unmount" /\ Kept(t, "load")
        \/ UNCHANGED lock /\ task[t].op = "destroy" /\ Kept(t, "wipe")
    <3>1. \/ Finish(t)
          \/ UNCHANGED lock /\ task[t].op = "unmount" /\ Goto(t, "load")
          \/ UNCHANGED lock /\ task[t].op = "destroy" /\ Goto(t, "wipe")
      BY <1>2 DEF Umount
    <3> QED
      BY <1>0, <3>1, FinishFacts, GotoFacts
  <2>6. CASE UNCHANGED lock /\ task[t].op = "destroy" /\ Kept(t, "wipe")
    <3>1. ExactTask(t)' /\ WipeTask(t)'
      BY <1>0, <2>1, <2>6 DEF Ready, ExactTask, WipeTask, At, Kept, Moved
    <3> QED
      BY <1>0, <2>2, <2>4, <2>6, <3>1, Moved_Step DEF Kept
  <2> QED
    BY <1>0, <2>2, <2>4, <2>5, <2>6, Over_Step, Plain_Step DEF Kept
<1>3. CASE DestroyWipe(t)
  <2>0. /\ task[t].op = "destroy" /\ task[t].pc = "wipe" /\ lock = t /\ UNCHANGED <<mnt, dirs>>
        /\ \A d \in task[t].todo : sb[d] \in {0, task[t].fs.uuid}
    BY <1>0, <1>3, Critical_Lock DEF DestroyWipe, At, Ready, ExactTask
  <2>1. CASE UNCHANGED <<sb, member>> /\ (Finish(t) \/ (Goto(t, "load") /\ UNCHANGED lock))
    <3>1. WorldOK' /\ Calm(t) /\ MemberInv'
      BY <1>0, <2>0, <2>1, Untouched DEF WorldOK, TypeOK
    <3>2. Over(t) \/ (Kept(t, "load") /\ UNCHANGED lock)
      BY <1>0, <2>1, FinishFacts, GotoFacts
    <3> QED
      BY <1>0, <2>0, <3>1, <3>2, Over_Step, Plain_Step DEF Kept
  <2>2. ASSUME NEW d \in task[t].todo, sb' = [sb EXCEPT ![d] = 0], member' = member \ {d},
               Step(t, [task[t] EXCEPT !.todo = @ \ {d}]), UNCHANGED lock
        PROVE  IInv'
    <3> DEFINE m == [task[t] EXCEPT !.todo = @ \ {d}]
    <3>0. task[t] \in Request /\ task[t].todo \subseteq Dev
      BY <1>0, TaskFacts
    <3>1. /\ m \in Request /\ m.pc = task[t].pc /\ m.op = task[t].op /\ m.name = task[t].name
          /\ m.dev = task[t].dev /\ m.fs = task[t].fs /\ m.todo = task[t].todo \ {d}
      BY <3>0 DEF Request
    <3>2. Step(t, m)
      BY <2>2
    <3> HIDE DEF m
    <3>3. Moved(t, "wipe") /\ task'[t].fs = task[t].fs /\ task'[t].todo = task[t].todo \ {d}
      BY <1>0, <2>0, <3>1, <3>2, StepFacts DEF Moved
    <3>4. \A x \in Dev : sb'[x] \in {sb[x], 0}
      BY <1>0, <2>2 DEF TypeOK
    <3>5. ExactTask(t)' /\ WipeTask(t)'
      BY <2>0, <3>0, <3>3, <3>4 DEF ExactTask, WipeTask, At, Moved
    <3>6. WorldOK' /\ Calm(t)
      BY <1>0, <2>0, <2>2 DEF WorldOK, TypeOK, Calm
    <3>7. MemberInv'
      BY <1>0, <2>2 DEF IInv, MemberInv, TypeOK
    <3> QED
      BY <1>0, <2>0, <2>2, <3>3, <3>5, <3>6, <3>7, Moved_Step
  <2> QED
    BY <1>3, <2>1, <2>2 DEF DestroyWipe
<1> QED
  BY <1>1, <1>2, <1>3

\* device_add looks for a signature.
LEMMA Probe_Step ==
  ASSUME IInv, NEW t \in Task, AddProbe(t)
  PROVE  IInv'
<1>0. /\ TypeOK /\ task[t].op = "add" /\ task[t].pc = "blank"
      /\ UNCHANGED <<kernel, file, cache, boot, events>>
      /\ blame \subseteq blame' /\ blame' \subseteq {"stale", "blind", "file"}
  BY DEF IInv, TypeOK, AddProbe, At, Blame
<1>1. WorldOK' /\ Calm(t) /\ MemberInv'
  BY <1>0, Untouched DEF WorldOK, TypeOK, kernel
<1>2. CASE Finish(t)
  BY <1>0, <1>1, <1>2, FinishFacts, Over_Step
<1>3. CASE /\ Goto(t, "cmd") /\ UNCHANGED lock
           /\ Blame(IF sb[task[t].dev] # 0 THEN {"blind"} ELSE {})
  <2>1. Moved(t, "cmd")
    BY <1>0, <1>3, GotoFacts DEF Kept
  <2>2. sb[task[t].dev] = 0 \/ "blind" \in blame'
    BY <1>3 DEF Blame
  <2>3. ExactTask(t)' /\ WipeTask(t)'
    BY <1>0, <2>1, <2>2 DEF ExactTask, WipeTask, At, Moved, kernel
  <2> QED
    BY <1>0, <1>1, <1>3, <2>1, <2>3, Moved_Step
<1> QED
  BY <1>2, <1>3 DEF AddProbe

\* device_wipe, device_add and device_remove.
LEMMA Device_Step ==
  ASSUME IInv, NEW t \in Task, DeviceCommand(t)
  PROVE  IInv'
<1>0. /\ TypeOK /\ Ready(t) /\ task[t].pc = "cmd"
      /\ UNCHANGED <<present, mnt, dirs, formatted, file, cache, boot, events, blame>>
  BY DEF IInv, DeviceCommand
<1> DEFINE d == task[t].dev
           on == IF task[t].fs.at = NoName THEN 0 ELSE mnt[task[t].fs.at]
<1>1. \/ Over(t)
      \/ Kept(t, "inval") /\ UNCHANGED lock
  BY <1>0, FinishFacts, GotoFacts DEF DeviceCommand
<1>2. \/ UNCHANGED <<sb, member>>
      \/ sb' = [sb EXCEPT ![d] = 0] /\ member' = member \ {d}
      \/ sb' = sb /\ member' = member \ {d}
      \/ /\ task[t].op = "add" /\ on # 0
         /\ sb' = [sb EXCEPT ![d] = on] /\ member' = member \cup {d}
  BY DEF DeviceCommand
<1>3. on \in Uuid \cup {0}
  BY <1>0, TaskFacts DEF TypeOK
<1>4. task[t].op = "add" => d \in Dev /\ lock = t
  BY <1>0, Critical_Lock DEF Ready
<1>5. WorldOK' /\ Calm(t) /\ MemberInv'
  <2> HIDE DEF on
  <2>1. CASE UNCHANGED <<sb, member>>
    BY <1>0, <2>1, Untouched DEF WorldOK, TypeOK
  <2>2. CASE sb' \in {sb, [sb EXCEPT ![d] = 0]} /\ member' = member \ {d}
    <3>1. WorldOK' /\ Calm(t)
      BY <1>0, <2>2 DEF WorldOK, TypeOK, Calm
    <3>2. MemberInv'
      BY <1>0, <2>2 DEF IInv, MemberInv, TypeOK
    <3> QED
      BY <3>1, <3>2
  <2>3. CASE /\ task[t].op = "add" /\ on # 0
             /\ sb' = [sb EXCEPT ![d] = on] /\ member' = member \cup {d}
    <3>1. WorldOK'
      BY <1>0, <1>3, <1>4, <2>3 DEF WorldOK, TypeOK
    <3>2. Calm(t)
      BY <1>0, <1>4, <2>3 DEF Calm
    <3>3. MemberInv'
      BY <1>0, <1>3, <1>4, <2>3 DEF IInv, MemberInv, TypeOK
    <3> QED
      BY <3>1, <3>2, <3>3
  <2> QED
    BY <1>2, <2>1, <2>2, <2>3
<1> QED
  BY <1>0, <1>1, <1>5, Over_Step, Plain_Step DEF Kept

-----------------------------------------------------------------------------
(* The registry file, restarts and the theorems.                             *)

\* What a request writes back is a registry.
LEMMA UpdatedFacts ==
  ASSUME TypeOK, NEW t \in Task, NEW reg \in FsState, task[t].name \in Name,
         task[t].op \in {"mount", "create", "unmount", "options", "destroy", "forget"}
  PROVE  Updated(t, reg) \in FsState
<1>0. task[t].fs.uuid \in Uuid \cup {0}
  BY TaskFacts
<1>1. ASSUME NEW e \in Entry PROVE [reg EXCEPT ![task[t].name] = e] \in FsState
  BY <1>1 DEF FsState
<1>2. ASSUME NEW up \in BOOLEAN PROVE [uuid |-> task[t].fs.uuid, up |-> up] \in Entry
  BY <1>0 DEF Entry
<1>3. NoEntry \in Entry
  BY DEF NoEntry, Entry
<1>4. \E e \in Entry : Updated(t, reg) = [reg EXCEPT ![task[t].name] = e]
  <2>1. CASE task[t].op \in {"mount", "create"}
    BY <1>2, <2>1 DEF Updated
  <2>2. CASE task[t].op = "unmount"
    BY <1>2, <2>2 DEF Updated
  <2>3. CASE task[t].op = "options"
    <3>1. (reg[task[t].name] = NoEntry \/ reg[task[t].name].up) \in BOOLEAN
      BY DEF FsState, Entry
    <3> QED
      BY <1>2, <2>3, <3>1 DEF Updated
  <2>4. CASE task[t].op \in {"destroy", "forget"}
    BY <1>3, <2>4 DEF Updated
  <2> QED
    BY <2>1, <2>2, <2>3, <2>4
<1> QED
  BY <1>1, <1>4

\* An empty cache has its type.
LEMMA NoCache ==
  [full |-> FALSE, list |-> {}] \in [full : BOOLEAN, list : SUBSET Filesystem]
  OBVIOUS

\* Reading, truncating and writing the file touches no device.
LEMMA File_Step ==
  ASSUME IInv, NEW t \in Task,
         \/ LoadState(t) \/ ForgetLoad(t) \/ ForgetProbe(t) \/ Truncate(t)
         \/ WriteState(t) \/ WriteFails(t) \/ Invalidate(t)
  PROVE  IInv'
<1>0. /\ TypeOK /\ Ready(t) /\ task[t].pc \notin {"idle", "wait"}
      /\ UNCHANGED <<kernel, boot, events>> /\ blame \subseteq blame'
      /\ blame' \subseteq {"stale", "blind", "file"}
  BY DEF IInv, TypeOK, LoadState, ForgetLoad, ForgetProbe, Truncate, WriteState, WriteFails,
         Invalidate, At, Blame
<1>1. Calm(t) /\ MemberInv'
  BY <1>0, Untouched DEF kernel
<1>2. file' \in [ok : BOOLEAN, reg : FsState]
  <2>1. file \in [ok : BOOLEAN, reg : FsState] /\ task[t].snap \in FsState
    BY <1>0, TaskFacts DEF TypeOK
  <2>2. file' \in {file, [file EXCEPT !.ok = FALSE], [ok |-> TRUE, reg |-> task[t].snap]}
    BY DEF LoadState, ForgetLoad, ForgetProbe, Truncate, WriteState, WriteFails, Invalidate
  <2>3. [file EXCEPT !.ok = FALSE] \in [ok : BOOLEAN, reg : FsState]
    BY <2>1
  <2>4. [ok |-> TRUE, reg |-> task[t].snap] \in [ok : BOOLEAN, reg : FsState]
    BY <2>1
  <2> QED
    BY <2>1, <2>2, <2>3, <2>4
<1>3. cache' \in [full : BOOLEAN, list : SUBSET Filesystem]
  <2>1. cache' \in {cache, [full |-> FALSE, list |-> {}]}
    BY DEF LoadState, ForgetLoad, ForgetProbe, Truncate, WriteState, WriteFails, Invalidate
  <2> QED
    BY <1>0, <2>1, NoCache DEF TypeOK
<1>4. WorldOK'
  BY <1>0, <1>2, <1>3 DEF WorldOK, TypeOK, kernel
<1>5. ASSUME NEW pc \in {"trunc", "probe"}, NEW m \in Request, Step(t, m), m.pc = pc,
             m.op = task[t].op, m.name = task[t].name, m.dev = task[t].dev, UNCHANGED lock
      PROVE  IInv'
  <2>1. Moved(t, pc)
    BY <1>0, <1>5, StepFacts DEF Moved
  <2> QED
    BY <1>0, <1>1, <1>4, <1>5, <2>1, Plain_Step
<1>6. ASSUME NEW pc \in {"inval", "trunc", "write"}, Goto(t, pc), UNCHANGED lock PROVE IInv'
  <2>1. Moved(t, pc)
    BY <1>0, <1>6, GotoFacts DEF Kept
  <2> QED
    BY <1>0, <1>1, <1>4, <1>6, <2>1, Plain_Step
<1>7. ASSUME Finish(t) PROVE IInv'
  BY <1>0, <1>1, <1>4, <1>7, FinishFacts, Over_Step
<1>8. CASE LoadState(t)
  <2> DEFINE m == [task[t] EXCEPT !.pc = "trunc", !.snap = Updated(t, load_fs_state)]
  <2>1. UNCHANGED lock /\ (Goto(t, "inval") \/ Step(t, m))
    BY <1>8 DEF LoadState
  <2>2. task[t].op \in {"mount", "create", "unmount", "options", "destroy"} /\ task[t].name \in Name
    BY <1>0, <1>8 DEF LoadState, Ready
  <2>3. task[t] \in Request /\ Updated(t, load_fs_state) \in FsState
    BY <1>0, <2>2, TaskFacts, UpdatedFacts, LoadFacts
  <2>4. /\ m \in Request /\ m.pc = "trunc" /\ m.op = task[t].op /\ m.name = task[t].name
        /\ m.dev = task[t].dev
    BY <2>3 DEF Request
  <2> HIDE DEF m
  <2> QED
    BY <1>5, <1>6, <2>1, <2>4
<1>9. CASE ForgetLoad(t)
  <2> DEFINE m == [task[t] EXCEPT !.pc = "probe", !.want = file.reg[task[t].name].uuid,
                                  !.snap = Updated(t, file.reg)]
  <2>1. \/ Finish(t)
        \/ file.reg[task[t].name].uuid \in Uuid /\ UNCHANGED lock /\ Step(t, m)
    BY <1>9 DEF ForgetLoad
  <2>2. task[t].op = "forget" /\ task[t].name \in Name
    BY <1>0, <1>9 DEF ForgetLoad, At, Ready
  <2>3. task[t] \in Request /\ Updated(t, file.reg) \in FsState
    BY <1>0, <2>2, TaskFacts, UpdatedFacts, LoadFacts
  <2>4. file.reg[task[t].name].uuid \in Uuid =>
           /\ m \in Request /\ m.pc = "probe" /\ m.op = task[t].op /\ m.name = task[t].name
           /\ m.dev = task[t].dev
    BY <2>3 DEF Request
  <2> HIDE DEF m
  <2> QED
    BY <1>5, <1>7, <2>1, <2>4
<1>10. CASE ForgetProbe(t) \/ Truncate(t) \/ WriteState(t) \/ WriteFails(t) \/ Invalidate(t)
  <2>1. \/ Finish(t)
        \/ UNCHANGED lock /\ \E pc \in {"inval", "trunc", "write"} : Goto(t, pc)
    BY <1>10 DEF ForgetProbe, Truncate, WriteState, WriteFails, Invalidate
  <2> QED
    BY <1>6, <1>7, <2>1
<1> QED
  BY <1>8, <1>9, <1>10

\* A restart ends every request; a reboot also renames the disks.
LEMMA Restart_Step ==
  ASSUME IInv, EngineRestart \/ Reboot
  PROVE  IInv'
<1>0. /\ TypeOK /\ Down
  BY DEF IInv, EngineRestart, Reboot
<1>1. /\ task' = [t \in Task |-> Idle] /\ lock' = NoTask /\ UNCHANGED <<file, formatted, dirs>>
      /\ cache' = [full |-> FALSE, list |-> {}] /\ events' = events + 1 /\ events < MaxEvents
      /\ boot' = ToRestore \cup {NoName} /\ blame' \subseteq {"stale", "blind", "file"}
  BY <1>0 DEF Down, Blame, TypeOK
<1>2. /\ sb' \in [Dev -> Uuid \cup {0}] /\ member' \subseteq Dev /\ present' \subseteq Dev
      /\ mnt' \in [Name -> Uuid \cup {0}] /\ MemberInv'
  <2>1. CASE EngineRestart
    BY <1>0, <2>1 DEF EngineRestart, TypeOK, IInv, MemberInv
  <2>2. CASE Reboot
    <3>1. PICK p \in [Dev -> Dev] :
             /\ sb' = [d \in Dev |-> sb[p[d]]]
             /\ member' = {d \in Dev : p[d] \in member}
             /\ present' = {d \in Dev : p[d] \in present}
      BY <2>2 DEF Reboot
    <3>2. mnt' = [n \in Name |-> 0]
      BY <2>2 DEF Reboot
    <3> QED
      BY <1>0, <3>1, <3>2 DEF TypeOK, IInv, MemberInv
  <2> QED
    BY <2>1, <2>2
<1>3. \A t \in Task : task'[t] = Idle
  BY <1>1
<1>4. \A t \in Task : Ready(t)'
  BY <1>3, IdleFacts DEF Ready, Critical, ExactTask, WipeTask, At
<1>5. TypeOK'
  <2>1. task' \in [Task -> Request \cup {Idle}]
    BY <1>1
  <2>2. boot' \subseteq Name \cup {NoName}
    BY <1>1 DEF ToRestore
  <2>3. cache' \in [full : BOOLEAN, list : SUBSET Filesystem]
    BY <1>1
  <2>4. lock' \in Task \cup {NoTask} /\ events' \in 0 .. MaxEvents
    BY <1>0, <1>1 DEF TypeOK
  <2>5. \A t \in Task :
           /\ task'[t].op \notin {"none", "list", "wipe"} => task'[t].name \in Name
           /\ task'[t].op \in {"create", "wipe", "add", "remove"} => task'[t].dev \in Dev
    BY <1>3, IdleFacts
  <2> QED
    BY <1>0, <1>1, <1>2, <2>1, <2>2, <2>3, <2>4, <2>5 DEF TypeOK
<1> QED
  BY <1>2, <1>4, <1>5 DEF IInv

\* restore_mounts starts the mounts of the boot.
LEMMA Restore_Step ==
  ASSUME IInv, NEW t \in Task, NEW n \in Name, RestoreNext(t, n)
  PROVE  IInv'
<1> DEFINE m == [Idle EXCEPT !.op = "mount", !.pc = "get", !.name = n, !.want = file.reg[n].uuid]
<1>0. /\ TypeOK /\ boot' = boot \ {n} /\ cache' = [full |-> FALSE, list |-> {}]
      /\ UNCHANGED <<kernel, file, lock, events, blame>>
      /\ (UNCHANGED task \/ (file.reg[n].uuid # Legacy /\ Step(t, m)))
  BY DEF IInv, RestoreNext
<1>1. WorldOK'
  BY <1>0 DEF WorldOK, TypeOK, kernel
<1>2. Calm(t) /\ MemberInv'
  BY <1>0, Untouched DEF kernel
<1>3. lock' \in Task \cup {NoTask} /\ \A o \in Task \ {t} : lock = o => lock' = o
  BY <1>0 DEF TypeOK
<1>4. CASE UNCHANGED task
  <2>1. Alone(t)
    BY <1>0, <1>4 DEF Alone, TypeOK
  <2>2. Ready(t)'
    BY <1>0, <1>4 DEF IInv, Misled, Ready, Critical, ExactTask, WipeTask, At, kernel
  <2> QED
    BY <1>1, <1>2, <1>3, <2>1, <2>2, Compose
<1>5. CASE file.reg[n].uuid # Legacy /\ Step(t, m)
  <2>1. file.reg[n].uuid \in Uuid \cup {0}
    BY <1>0, <1>5 DEF TypeOK, FsState, Entry
  <2>2. m \in Request /\ m.op = "mount" /\ m.pc = "get" /\ m.name = n
    BY <2>1, IdleFacts DEF Request, Idle
  <2> HIDE DEF m
  <2>3. Alone(t) /\ task'[t] = m
    BY <1>0, <1>5, <2>2, StepFacts
  <2>4. Ready(t)'
    BY <2>2, <2>3 DEF Ready, Critical, ExactTask, WipeTask, At
  <2> QED
    BY <1>1, <1>2, <1>3, <2>3, <2>4, Compose
<1> QED
  BY <1>0, <1>4, <1>5

\* A disk goes or comes back, a cached list expires, the boot is over.
LEMMA World_Step ==
  ASSUME IInv, CacheExpires \/ RestoreDone \/ \E d \in Dev : Unplug(d) \/ Replug(d)
  PROVE  IInv'
<1>0. /\ TypeOK /\ UNCHANGED <<sb, member, mnt, dirs, formatted, file, lock, task>>
      /\ blame \subseteq blame' /\ blame' \subseteq blame \cup {"stale"}
      /\ present' \subseteq Dev /\ boot' \in {boot, {}}
      /\ cache' \in {cache, [full |-> FALSE, list |-> {}]}
      /\ events' = events \/ (events < MaxEvents /\ events' = events + 1)
      /\ \/ present' \subseteq present
         \/ Misled'
         \/ \A t \in Task : task[t] = Idle
  BY DEF IInv, TypeOK, CacheExpires, RestoreDone, Unplug, Replug, Blame, Misled, kernel
<1>1. TypeOK'
  <2>1. cache' \in [full : BOOLEAN, list : SUBSET Filesystem]
    BY <1>0, NoCache DEF TypeOK
  <2>2. boot' \subseteq Name \cup {NoName} /\ events' \in 0 .. MaxEvents /\ present' \subseteq Dev
    BY <1>0 DEF TypeOK
  <2> QED
    BY <1>0, <2>1, <2>2 DEF TypeOK
<1>2. MemberInv'
  BY <1>0 DEF IInv, MemberInv
<1>3. ASSUME NEW t \in Task PROVE Ready(t)'
  <2>1. Ready(t)
    BY DEF IInv
  <2>2. ExactTask(t)' /\ WipeTask(t)'
    BY <1>0, <2>1, IdleFacts DEF Ready, ExactTask, WipeTask, Misled, At
  <2> QED
    BY <1>0, <2>1, <2>2 DEF Ready, Critical
<1> QED
  BY <1>1, <1>2, <1>3 DEF IInv

\* The registry as the engine finds it at its first start.
LEMMA Init_IInv ==
  ASSUME Init
  PROVE  IInv
<1>1. PICK up \in BOOLEAN, d \in Dev, n \in UserName, old \in SUBSET UserName :
          /\ n \notin old
          /\ sb = [x \in Dev |-> IF x = d THEN 1 ELSE 0]
          /\ member = {d}
          /\ mnt = [x \in Name |-> IF x = n /\ up THEN 1 ELSE 0]
          /\ dirs = {n} \cup old
          /\ file = [ok |-> TRUE,
                     reg |-> [x \in Name |->
                                 CASE x = n -> [uuid |-> 1, up |-> up]
                                   [] x \in old -> [uuid |-> Legacy, up |-> TRUE]
                                   [] OTHER -> NoEntry]]
  BY Zenon DEF Init
<1>2. 1 \in Uuid
  BY DEF Uuid
<1>3. sb \in [Dev -> Uuid \cup {0}] /\ mnt \in [Name -> Uuid \cup {0}] /\ dirs \subseteq Name
  BY <1>1, <1>2 DEF Name
<1>4. file \in [ok : BOOLEAN, reg : FsState]
  <2> DEFINE e(x) == CASE x = n -> [uuid |-> 1, up |-> up]
                       [] x \in old -> [uuid |-> Legacy, up |-> TRUE]
                       [] OTHER -> NoEntry
  <2>1. \A x \in Name : e(x) \in Entry
    BY <1>2 DEF Entry, NoEntry
  <2>2. file = [ok |-> TRUE, reg |-> [x \in Name |-> e(x)]]
    BY <1>1
  <2> HIDE DEF e
  <2> QED
    BY <2>1, <2>2 DEF FsState
<1>5. \A t \in Task : task[t] = Idle
  BY DEF Init
<1>6. TypeOK
  <2>1. task \in [Task -> Request \cup {Idle}]
    BY DEF Init
  <2>2. cache \in [full : BOOLEAN, list : SUBSET Filesystem]
    BY DEF Init
  <2>3. /\ member \subseteq Dev /\ present \subseteq Dev /\ boot \subseteq Name \cup {NoName}
        /\ formatted \in 0 .. MaxUuid /\ lock \in Task \cup {NoTask}
        /\ events \in 0 .. MaxEvents /\ blame \subseteq {"stale", "blind", "file"}
    BY <1>1 DEF Init
  <2>4. \A t \in Task :
           /\ task[t].op \notin {"none", "list", "wipe"} => task[t].name \in Name
           /\ task[t].op \in {"create", "wipe", "add", "remove"} => task[t].dev \in Dev
    BY <1>5, IdleFacts
  <2> QED
    BY <1>3, <1>4, <2>1, <2>2, <2>3, <2>4 DEF TypeOK
<1>7. MemberInv
  BY <1>1 DEF MemberInv
<1>8. \A t \in Task : Ready(t)
  BY <1>5, IdleFacts DEF Ready, Critical, ExactTask, WipeTask, At
<1> QED
  BY <1>6, <1>7, <1>8 DEF IInv

\* Every step keeps the invariant.
LEMMA IInv_Step ==
  ASSUME IInv, [Next]_vars
  PROVE  IInv'
<1>1. CASE UNCHANGED vars
  <2>1. UNCHANGED <<sb, member, present, mnt, dirs, formatted, file, cache, lock, task, boot,
                    events, blame>>
    BY <1>1 DEF vars, kernel
  <2> QED
    BY <2>1 DEF IInv, TypeOK, MemberInv, Ready, Critical, ExactTask, WipeTask, Misled, At
<1>2. ASSUME NEW t \in Task, Begin(t) PROVE IInv'
  <2>1. UserName \subseteq Name
    BY DEF Name
  <2>2. ASSUME NEW n \in UserName, NEW d \in Dev, Start(t, "create", n, d) PROVE IInv'
    BY <2>1, <2>2, Start_Step
  <2>3. ASSUME NEW op \in {"destroy", "forget", "mount", "unmount", "options"}, NEW n \in Name,
               Start(t, op, n, NoName)
        PROVE  IInv'
    BY <2>3, Start_Step
  <2>4. ASSUME NEW op \in {"add", "remove"}, NEW n \in Name, NEW d \in Dev, Start(t, op, n, d)
        PROVE  IInv'
    BY <2>4, Start_Step
  <2>5. ASSUME NEW d \in Dev, Start(t, "wipe", NoName, d) PROVE IInv'
    BY <2>5, Start_Step
  <2>6. CASE Start(t, "list", NoName, NoName)
    BY <2>6, Start_Step
  <2> QED
    BY <1>2, <2>2, <2>3, <2>4, <2>5, <2>6 DEF Begin
<1>3. ASSUME NEW t \in Task, Continue(t) PROVE IInv'
  BY <1>3, AcquireMutex_Step, Get_Step, Create_Step, Mount_Step, Unmount_Step, Probe_Step,
     Device_Step, File_Step DEF Continue
<1> QED
  BY <1>1, <1>2, <1>3, Restore_Step, Restart_Step, World_Step DEF Next, Environment

\* The inductive invariant holds in every state, for any number of requests.
THEOREM Invariance == Spec => []IInv
  BY Init_IInv, IInv_Step, PTL DEF Spec

\* Type correctness: the registry, the cached list and every list a request holds
\* consist of well-formed entries and records, also across restarts.
THEOREM TypeCorrect == Spec => []TypeOK
<1>1. IInv => TypeOK
  BY DEF IInv
<1> QED
  BY <1>1, Invariance, PTL

\* destroy wipes, create formats and device_add adds only what it checked
\* (block_mutations joins the check and the command); device_add is excepted when blkid
\* failed on its device.
THEOREM DestructionIsExact == Spec => []DestructionExact
<1>1. IInv => DestructionExact
  BY DEF IInv, Ready, ExactTask, DestructionExact, At
<1> QED
  BY <1>1, Invariance, PTL

\* device_wipe is about to erase a member only on the word of a list that is out of
\* date or short: overlapping requests alone do not mislead it.
THEOREM MembersSpared == Spec => []WipeSparesMembers
<1>1. IInv => WipeSparesMembers
  BY DEF IInv, Ready, WipeTask, Misled, WipeSparesMembers
<1> QED
  BY <1>1, Invariance, PTL

-----------------------------------------------------------------------------
(* The registry agrees with the mount table, and keeps its entries, as long as *)
(* nothing is to blame.                                                        *)

\* Whatever still shows filesystem u is on the devices S: its members that are
\* plugged in and, while it is mounted, some member.  Covered(u, {}) says that u
\* is gone.
Covered(u, S) ==
    /\ \A d \in member \cap present : sb[d] = u => d \in S
    /\ Mounted(u) => \E d \in member : sb[d] = u /\ d \in S

\* What is mounted has a member.
Backed == \A n \in Name : mnt[n] # 0 => \E d \in member : sb[d] = mnt[n]

\* The request mounts a filesystem at /fs/<n> and has not written that down.
Recorder(t, n) ==
    /\ task[t].op \in {"mount", "create"} /\ task[t].name = n
    /\ task[t].pc \in {"check", "load", "trunc", "write"}

\* The request has read the registry and will write it back.
Holding(t) == task[t].pc \in {"probe", "trunc", "write"}

\* The entry of a filesystem that is mounted.
MountedEntry(u) == [uuid |-> u, up |-> TRUE]

\* A request that works on a filesystem has found one.
FoundFs(t) ==
    task[t].pc \in {"verify", "umount", "wipe", "mount", "check", "load"} =>
        task[t].fs.uuid \in Uuid

\* What the request mounted is still mounted when it records that.
MountStands(t) ==
    Recording(t) =>
        /\ mnt[task[t].name] # 0
        /\ task[t].pc = "load" => mnt[task[t].name] = task[t].fs.uuid

\* What the request read is what the file says, but for its own entry.
SnapCurrent(t) ==
    Holding(t) =>
        /\ task[t].name \in Name
        /\ \A m \in Name \ {task[t].name} : task[t].snap[m] = file.reg[m]

\* The entry it will write is true of its mount point, unless another request
\* has yet to write it down.
SnapAgrees(t) ==
    Holding(t) /\ mnt[task[t].name] # 0 =>
        \/ task[t].snap[task[t].name] = MountedEntry(mnt[task[t].name])
        \/ \E o \in Task \ {t} : Recorder(o, task[t].name)

\* The file stays truncated until it is written.
Torn(t) == task[t].pc = "write" => ~ file.ok

\* destroy knows every device that shows its filesystem, and wipes them all.
WipesAll(t) ==
    task[t].op = "destroy" =>
        /\ task[t].pc = "fill" => \A f \in task[t].list : Covered(f.uuid, f.devs)
        /\ task[t].pc \in {"verify", "umount", "wipe"} => Covered(task[t].fs.uuid, task[t].todo)
        /\ task[t].pc = "load" => Covered(task[t].fs.uuid, {})

\* forget_unavailable probes for the filesystem of the entry.
ProbesEntry(t) ==
    task[t].pc = "probe" =>
        /\ task[t].op = "forget" /\ file.reg[task[t].name].uuid = task[t].want
        /\ task[t].snap[task[t].name] = NoEntry

\* An entry is removed when its filesystem is gone.
ErasesGone(t) ==
    task[t].pc \in {"trunc", "write"} /\ task[t].snap[task[t].name] = NoEntry =>
        /\ task[t].op \in {"destroy", "forget"}
        /\ file.reg[task[t].name].uuid \in Uuid => Covered(file.reg[task[t].name].uuid, {})

Faithful(t) ==
    /\ FoundFs(t) /\ MountStands(t) /\ SnapCurrent(t) /\ SnapAgrees(t) /\ Torn(t)
    /\ WipesAll(t) /\ ProbesEntry(t) /\ ErasesGone(t)

\* What is mounted is registered, or a request is about to register it.
Agreed ==
    \A n \in Name : mnt[n] # 0 =>
        file.reg[n] = MountedEntry(mnt[n]) \/ \E o \in Task : Recorder(o, n)

\* One request at a time records what is mounted at a mount point.
OneRecorder ==
    \A t, o \in Task : Recording(t) /\ Recording(o) /\ task[t].name = task[o].name => t = o

RInv ==
    /\ IInv /\ Backed
    /\ blame = {} => Agreed /\ OneRecorder /\ \A t \in Task : Faithful(t)

-----------------------------------------------------------------------------
(* What a step leaves of the devices and mounts.                             *)

\* What is newly mounted has a member that is plugged in, and no mounted
\* filesystem loses its last member.
Grounded ==
    /\ \A n \in Name : mnt'[n] # 0 =>
          mnt'[n] = mnt[n] \/ \E d \in member \cap present : sb[d] = mnt'[n]
    /\ \A d \in member : (\E n \in Name : mnt'[n] = sb[d]) =>
          \E e \in member \cap member' :
             sb[e] = sb[d] /\ sb'[e] = sb[d] /\ (e = d \/ e \in present)

\* No superblock is written and no disk plugged in.
Shrinks ==
    /\ \A d \in Dev : sb'[d] \in {sb[d], 0}
    /\ member' \subseteq member /\ present' \subseteq present

\* A mounted filesystem keeps a member.
LEMMA Backed_Step ==
  ASSUME TypeOK, Backed, Grounded
  PROVE  Backed'
<1> SUFFICES ASSUME NEW n \in Name, mnt'[n] # 0
             PROVE  \E d \in member' : sb'[d] = mnt'[n]
  BY DEF Backed
<1>1. \E d \in member : sb[d] = mnt'[n]
  BY DEF Backed, Grounded
<1> QED
  BY <1>1 DEF Grounded

\* A filesystem that is covered stays covered.
LEMMA Covered_Step ==
  ASSUME TypeOK, Grounded, Shrinks, NEW u \in Uuid, NEW S, Covered(u, S)
  PROVE  Covered(u, S)'
<1>0. u # 0 /\ member \subseteq Dev /\ member' \subseteq member /\ present' \subseteq present
  BY DEF Uuid, TypeOK, Shrinks
<1>1. \A d \in member' \cap present' : sb'[d] = u => d \in S
  BY <1>0 DEF Shrinks, Covered
<1>2. ASSUME NEW n \in Name, mnt'[n] = u
      PROVE  \E d \in member' : sb'[d] = u /\ d \in S
  <2>1. PICK d \in member : sb[d] = u /\ d \in S
    <3>1. CASE mnt[n] = u
      BY <3>1 DEF Covered, Mounted
    <3>2. CASE mnt[n] # u
      <4>1. PICK d \in member \cap present : sb[d] = u
        BY <1>0, <1>2, <3>2 DEF Grounded
      <4> QED
        BY <4>1 DEF Covered
    <3> QED
      BY <3>1, <3>2
  <2>2. PICK e \in member \cap member' : sb[e] = u /\ sb'[e] = u /\ (e = d \/ e \in present)
    BY <1>2, <2>1 DEF Grounded
  <2>3. e \in S
    BY <2>1, <2>2 DEF Covered
  <2> QED
    BY <2>2, <2>3
<1> QED
  BY <1>1, <1>2 DEF Covered, Mounted

\* A step that changes no device and at most unmounts.
LEMMA Grounded_Still ==
  ASSUME UNCHANGED <<sb, member, present>>, \A n \in Name : mnt'[n] \in {mnt[n], 0}
  PROVE  Grounded /\ Shrinks
  BY DEF Grounded, Shrinks

\* What a complete list reports of a filesystem covers it.
LEMMA ListCovers ==
  ASSUME TypeOK, Backed, NEW reg \in FsState, NEW l \in list_complete(reg), NEW f \in l
  PROVE  Covered(f.uuid, f.devs)
<1> DEFINE known == {x \in Uuid : Mounted(x)}
<1>1. l \in ListOf(reg, known, present) /\ known \subseteq Uuid /\ present \subseteq present
  BY DEF list_complete
<1> HIDE DEF known
<1>2. /\ f \in Filesystem
      /\ \A d : d \in f.devs <=>
                  d \in (IF f.uuid \in known THEN member ELSE present) /\ sb[d] = f.uuid
  BY <1>1, ListOfFacts
<1>3. f.uuid \in Uuid /\ f.uuid # 0
  BY <1>2 DEF Filesystem, Uuid
<1>4. CASE Mounted(f.uuid)
  <2>1. \A d : d \in f.devs <=> d \in member /\ sb[d] = f.uuid
    BY <1>2, <1>3, <1>4 DEF known
  <2>2. \E d \in member : sb[d] = f.uuid
    BY <1>3, <1>4 DEF Mounted, Backed
  <2> QED
    BY <2>1, <2>2 DEF Covered
<1>5. CASE ~ Mounted(f.uuid)
  <2>1. \A d : d \in f.devs <=> d \in present /\ sb[d] = f.uuid
    BY <1>2, <1>5 DEF known
  <2> QED
    BY <1>5, <2>1 DEF Covered
<1> QED
  BY <1>4, <1>5

-----------------------------------------------------------------------------
(* How a step of one request leaves the others faithful.                     *)

\* The step does not unmount what another request is recording, mounts only what
\* it is going to record itself, changes the file only when no other request holds
\* what it read, and gives up recording only what it has unmounted or written.
Considerate(t) ==
    /\ \A n \in Name : mnt'[n] # mnt[n] => mnt'[n] = 0 \/ (mnt[n] = 0 /\ Recorder(t, n)')
    /\ \A o \in Task \ {t} : Recording(o) => mnt'[task[o].name] = mnt[task[o].name]
    /\ \A o \in Task \ {t} : Holding(o) => file'.reg = file.reg /\ (file'.ok => file.ok)
    /\ \A o \in Task \ {t}, n \in Name :
          Holding(o) /\ Recorder(t, n) /\ mnt'[n] # 0 => Recorder(t, n)'

\* What a request is recording, another request's step leaves alone.
LEMMA Recorder_Others ==
  ASSUME NEW t \in Task, Alone(t), NEW o \in Task, o # t
  PROVE  /\ \A n : Recorder(o, n)' <=> Recorder(o, n)
         /\ Recording(o)' <=> Recording(o)
         /\ Holding(o)' <=> Holding(o)
  BY DEF Alone, Recorder, Recording, Holding

\* Another request keeps what it knows of the mounts and the file.
LEMMA Others_File ==
  ASSUME RInv, blame = {}, NEW t \in Task, Alone(t), Considerate(t), NEW o \in Task, o # t
  PROVE  /\ FoundFs(o)' /\ MountStands(o)' /\ SnapCurrent(o)' /\ SnapAgrees(o)' /\ Torn(o)'
<1>0. Faithful(o) /\ task'[o] = task[o] /\ o \in Task \ {t} /\ TypeOK
  BY DEF RInv, Alone, IInv
<1>1. FoundFs(o)'
  BY <1>0 DEF Faithful, FoundFs
<1>2. MountStands(o)'
  BY <1>0 DEF Faithful, MountStands, Considerate, Recording
<1>3. SnapCurrent(o)' /\ Torn(o)'
  BY <1>0 DEF Faithful, SnapCurrent, Torn, Considerate, Holding
<1>4. SnapAgrees(o)'
  <2> DEFINE n == task[o].name
  <2> SUFFICES ASSUME Holding(o), mnt'[n] # 0
               PROVE  \/ task[o].snap[n] = MountedEntry(mnt'[n])
                      \/ \E p \in Task \ {o} : Recorder(p, n)'
    BY <1>0 DEF SnapAgrees, Holding, MountedEntry
  <2>1. n \in Name
    BY <1>0 DEF Faithful, SnapCurrent
  <2>2. CASE mnt'[n] # mnt[n]
    BY <2>1, <2>2, <1>0 DEF Considerate
  <2>3. CASE mnt'[n] = mnt[n]
    <3>1. CASE task[o].snap[n] = MountedEntry(mnt[n])
      BY <2>3, <3>1
    <3>2. ASSUME NEW p \in Task \ {o}, Recorder(p, n) PROVE Recorder(p, n)'
      <4>1. CASE p = t
        BY <1>0, <2>1, <3>2, <4>1 DEF Considerate
      <4>2. CASE p # t
        BY <1>0, <3>2, <4>2, Recorder_Others DEF Recorder
      <4> QED
        BY <4>1, <4>2
    <3> QED
      BY <1>0, <2>3, <3>1, <3>2 DEF Faithful, SnapAgrees
  <2> QED
    BY <2>2, <2>3
<1> QED
  BY <1>1, <1>2, <1>3, <1>4

\* destroy and forget_unavailable hold block_mutations, so what they know of the
\* devices stays true.
LEMMA Others_Device ==
  ASSUME RInv, blame = {}, NEW t \in Task, Alone(t), Considerate(t), Grounded,
         lock # t => Shrinks, NEW o \in Task, o # t
  PROVE  WipesAll(o)' /\ ProbesEntry(o)' /\ ErasesGone(o)'
<1>0. /\ Faithful(o) /\ task'[o] = task[o] /\ o \in Task \ {t} /\ TypeOK /\ Ready(o)
      /\ task[o].list \subseteq Filesystem
  BY TaskFacts DEF RInv, Alone, IInv
<1>1. Critical(o) => Shrinks
  BY <1>0 DEF Ready
<1>2. ASSUME Critical(o), NEW u \in Uuid, NEW S, Covered(u, S) PROVE Covered(u, S)'
  BY <1>0, <1>1, <1>2, Covered_Step
<1>3. WipesAll(o)'
  <2> SUFFICES ASSUME task[o].op = "destroy"
               PROVE  /\ task[o].pc = "fill" => \A f \in task[o].list : Covered(f.uuid, f.devs)'
                      /\ task[o].pc \in {"verify", "umount", "wipe"} =>
                            Covered(task[o].fs.uuid, task[o].todo)'
                      /\ task[o].pc = "load" => Covered(task[o].fs.uuid, {})'
    BY <1>0 DEF WipesAll
  <2>1. ASSUME task[o].pc = "fill", NEW f \in task[o].list PROVE Covered(f.uuid, f.devs)'
    <3>1. Critical(o) /\ f.uuid \in Uuid /\ Covered(f.uuid, f.devs)
      BY <1>0, <2>1 DEF Critical, Faithful, WipesAll, Filesystem
    <3> QED
      BY <1>2, <3>1
  <2>2. ASSUME task[o].pc \in {"verify", "umount", "wipe"}
        PROVE  Covered(task[o].fs.uuid, task[o].todo)'
    <3>1. /\ Critical(o) /\ task[o].fs.uuid \in Uuid
          /\ Covered(task[o].fs.uuid, task[o].todo)
      BY <1>0, <2>2 DEF Critical, Faithful, WipesAll, FoundFs
    <3> QED
      BY <1>0, <1>2, <3>1
  <2>3. ASSUME task[o].pc = "load" PROVE Covered(task[o].fs.uuid, {})'
    <3>1. Critical(o) /\ task[o].fs.uuid \in Uuid /\ Covered(task[o].fs.uuid, {})
      BY <1>0, <2>3 DEF Critical, Faithful, WipesAll, FoundFs
    <3> QED
      BY <1>0, <1>2, <3>1
  <2> QED
    BY <2>1, <2>2, <2>3
<1>4. ProbesEntry(o)'
  BY <1>0 DEF Faithful, ProbesEntry, Considerate, Holding
<1>5. ErasesGone(o)'
  <2> DEFINE u == file.reg[task[o].name].uuid
  <2> SUFFICES ASSUME task[o].pc \in {"trunc", "write"}, task[o].snap[task[o].name] = NoEntry
               PROVE  /\ task[o].op \in {"destroy", "forget"}
                      /\ file'.reg = file.reg
                      /\ u \in Uuid => Covered(u, {})'
    BY <1>0 DEF ErasesGone
  <2>1. task[o].op \in {"destroy", "forget"} /\ (u \in Uuid => Covered(u, {}))
    BY <1>0 DEF Faithful, ErasesGone
  <2>2. Critical(o) /\ file'.reg = file.reg
    BY <1>0, <2>1 DEF Critical, Considerate, Holding
  <2> QED
    BY <1>0, <1>2, <2>1, <2>2
<1> QED
  BY <1>3, <1>4, <1>5

\* A step of a request keeps the invariant when it leaves the request faithful.
LEMMA RInv_Compose ==
  ASSUME RInv, IInv', Grounded, blame \subseteq blame', NEW t \in Task, Alone(t),
         lock # t => Shrinks,
         blame' = {} =>
            /\ Considerate(t) /\ Agreed' /\ Faithful(t)'
            /\ Recording(t)' =>
                  \/ Recording(t) /\ task'[t].name = task[t].name
                  \/ mnt[task'[t].name] = 0
  PROVE  RInv'
<1>1. Backed'
  BY Backed_Step DEF RInv, IInv
<1>2. ASSUME blame' = {} PROVE (Agreed /\ OneRecorder /\ \A o \in Task : Faithful(o))'
  <2>0. blame = {} /\ OneRecorder /\ \A o \in Task : MountStands(o)
    BY <1>2 DEF RInv, Faithful
  <2>1. \A o \in Task : Faithful(o)'
    <3>1. ASSUME NEW o \in Task, o # t PROVE Faithful(o)'
      BY <1>2, <2>0, <3>1, Others_File, Others_Device DEF Faithful
    <3> QED
      BY <1>2, <3>1
  <2>2. OneRecorder'
    <3>1. \A o \in Task \ {t} : Recording(o)' => Recording(o) /\ task'[o].name = task[o].name
      BY Recorder_Others DEF Alone
    <3>2. ASSUME NEW o \in Task \ {t}, Recording(t)', Recording(o)', task'[t].name = task'[o].name
          PROVE  FALSE
      <4>1. Recording(o) /\ task'[o].name = task[o].name /\ mnt[task[o].name] # 0
        BY <2>0, <3>1, <3>2 DEF MountStands
      <4>2. Recording(t) /\ task[t].name = task[o].name
        BY <1>2, <3>2, <4>1
      <4> QED
        BY <2>0, <4>1, <4>2 DEF OneRecorder
    <3>3. ASSUME NEW o \in Task \ {t}, NEW p \in Task \ {t}, Recording(o)', Recording(p)',
                 task'[o].name = task'[p].name
          PROVE  o = p
      BY <2>0, <3>1, <3>3 DEF OneRecorder
    <3> QED
      BY <3>2, <3>3 DEF OneRecorder
  <2> QED
    BY <1>2, <2>1, <2>2
<1> QED
  BY <1>1, <1>2 DEF RInv

\* A step that leaves the file alone keeps it in agreement with the mounts.
LEMMA Agreed_Step ==
  ASSUME RInv, blame = {}, NEW t \in Task, Alone(t), Considerate(t), file'.reg = file.reg,
         \A n \in Name : Recorder(t, n) /\ mnt'[n] # 0 => Recorder(t, n)'
  PROVE  Agreed'
<1> SUFFICES ASSUME NEW n \in Name, mnt'[n] # 0
             PROVE  \/ file'.reg[n] = MountedEntry(mnt'[n])
                    \/ \E o \in Task : Recorder(o, n)'
  BY DEF Agreed, MountedEntry
<1>1. CASE mnt'[n] # mnt[n]
  BY <1>1 DEF Considerate
<1>2. CASE mnt'[n] = mnt[n]
  <2>1. CASE file.reg[n] = MountedEntry(mnt[n])
    BY <1>2, <2>1
  <2>2. ASSUME NEW o \in Task, Recorder(o, n) PROVE Recorder(o, n)'
    <3>1. CASE o # t
      BY <2>2, <3>1, Recorder_Others
    <3>2. CASE o = t
      BY <2>2, <3>2
    <3> QED
      BY <3>1, <3>2
  <2> QED
    BY <1>2, <2>1, <2>2 DEF RInv, Agreed
<1> QED
  BY <1>1, <1>2

\* The request neither records a mount nor holds what it read.
Bland(r) ==
    /\ r.pc \notin {"check", "probe", "trunc", "write"}
    /\ r.pc = "load" => r.op \notin {"mount", "create"}

\* A step between such points that at most unmounts, and blames itself when it
\* unmounts what is being recorded.
LEMMA Bland_Step ==
  ASSUME RInv, IInv', Grounded, blame \subseteq blame', NEW t \in Task, Alone(t),
         lock # t => Shrinks, Bland(task[t]), Bland(task'[t]), UNCHANGED file,
         \A n \in Name : mnt'[n] \in {mnt[n], 0},
         blame' = {} =>
            /\ \A o \in Task : Recording(o) => mnt'[task[o].name] # 0
            /\ FoundFs(t)' /\ WipesAll(t)'
  PROVE  RInv'
<1>1. ASSUME blame' = {}
      PROVE  /\ Considerate(t) /\ Agreed' /\ Faithful(t)'
             /\ ~ Recording(t)'
  <2>0. blame = {}
    BY <1>1
  <2>1. ~ Holding(t)' /\ ~ Recording(t)' /\ \A n : ~ Recorder(t, n)
    BY DEF Bland, Holding, Recording, Recorder
  <2>2. Considerate(t)
    <3>1. \A o \in Task : Recording(o) => task[o].name \in Name
      BY DEF Recording, RInv, IInv, Ready
    <3> QED
      BY <1>1, <2>1, <3>1 DEF Considerate
  <2>3. Agreed'
    BY <2>0, <2>1, <2>2, Agreed_Step
  <2>4. Faithful(t)'
    BY <1>1, <2>1 DEF Faithful, MountStands, SnapCurrent, SnapAgrees, Torn, ProbesEntry,
                      ErasesGone, Holding
  <2> QED
    BY <2>1, <2>2, <2>3, <2>4
<1> QED
  BY <1>1, RInv_Compose

-----------------------------------------------------------------------------
(* Arrival, get and list, create.                                            *)

\* A step to a point where the request relies on nothing.
LEMMA Aside_Step ==
  ASSUME RInv, IInv', NEW t \in Task, Alone(t), UNCHANGED <<sb, member, present, mnt, file>>,
         blame \subseteq blame', Bland(task[t]),
         task'[t].pc \in {"idle", "wait", "get", "plan", "reserve", "format", "blank", "cmd",
                          "inval"}
  PROVE  RInv'
<1>1. Grounded /\ Shrinks
  BY Grounded_Still
<1>2. Bland(task'[t]) /\ FoundFs(t)' /\ WipesAll(t)'
  BY DEF Bland, FoundFs, WipesAll
<1>3. blame' = {} => \A o \in Task : Recording(o) => mnt'[task[o].name] # 0
  BY DEF RInv, Faithful, MountStands
<1> QED
  BY <1>1, <1>2, <1>3, Bland_Step

\* A request that ends where it neither records nor holds anything.
LEMMA Ends_Step ==
  ASSUME RInv, IInv', NEW t \in Task, Finish(t), UNCHANGED <<sb, member, present, mnt, file>>,
         blame \subseteq blame', Bland(task[t])
  PROVE  RInv'
<1>1. Alone(t) /\ task'[t].pc = "idle"
  BY FinishFacts, IdleFacts DEF RInv, IInv, Over
<1> QED
  BY <1>1, Aside_Step

\* A request arrives and gets block_mutations.
LEMMA RInv_Start ==
  ASSUME RInv, IInv', NEW t \in Task,
         \/ AcquireMutex(t)
         \/ \E op \in Mutators \cup Others, name \in Name \cup {NoName},
               dev \in Dev \cup {NoName} : Start(t, op, name, dev)
  PROVE  RInv'
<1>0. TypeOK
  BY DEF RInv, IInv
<1>1. CASE AcquireMutex(t)
  <2>1. /\ task[t].pc = "wait" /\ UNCHANGED <<sb, member, present, mnt, file, blame>>
        /\ \E pc \in {"plan", "get"} : Goto(t, pc)
    BY <1>1 DEF AcquireMutex, kernel
  <2>2. Alone(t) /\ task'[t].pc \in {"plan", "get"}
    BY <1>0, <2>1, GotoFacts DEF Kept, Moved
  <2>3. Bland(task[t])
    BY <2>1 DEF Bland
  <2> QED
    BY <2>1, <2>2, <2>3, Aside_Step
<1>2. ASSUME NEW op \in Mutators \cup Others, NEW name \in Name \cup {NoName},
             NEW dev \in Dev \cup {NoName}, Start(t, op, name, dev)
      PROVE  RInv'
  <2> DEFINE pc == IF op \in Mutators THEN "wait" ELSE "get"
             m == [Idle EXCEPT !.op = op, !.name = name, !.dev = dev, !.pc = pc]
  <2>1. m \in Request /\ m.pc = pc
    BY IdleFacts, ZenonT(60) DEF Request, Idle
  <2>2. /\ Step(t, m) /\ task[t] = Idle /\ UNCHANGED <<sb, member, present, mnt, file, blame>>
    BY <1>2 DEF Start, kernel
  <2> HIDE DEF m
  <2>3. Alone(t) /\ task'[t].pc \in {"wait", "get"}
    BY <1>0, <2>1, <2>2, StepFacts
  <2>4. Bland(task[t])
    BY <2>2, IdleFacts DEF Bland
  <2> QED
    BY <2>2, <2>3, <2>4, Aside_Step
<1> QED
  BY <1>1, <1>2

\* What becomes of a request that has the list, with the filesystem it takes.
LEMMA Dispatch_Found ==
  ASSUME TypeOK, NEW t \in Task, task[t].pc # "idle", NEW list, list \subseteq Filesystem,
         NEW want, Dispatch(t, list, want)
  PROVE  /\ Alone(t)
         /\ \/ task'[t].pc \in {"idle", "inval", "cmd", "get", "blank"}
            \/ \E f \in list :
                  /\ task'[t].fs = f /\ task'[t].todo = f.devs /\ task'[t].op = task[t].op
                  /\ \/ task'[t].pc = "verify"
                     \/ task'[t].pc = "load" /\ task[t].op \in {"unmount", "options"}
<1> DEFINE found == select_filesystem_for_mount(list, task[t].name, want)
<1>1. \A f \in found : f \in list /\ f \in Filesystem
  BY SelectFacts
<1>2. ASSUME NEW f \in Filesystem \cup {NoFs}, NEW pc \in Pcs, Takes(t, f, pc)
      PROVE  /\ Alone(t) /\ task'[t].pc = pc /\ task'[t].op = task[t].op /\ task'[t].fs = f
             /\ task'[t].todo = f.devs
  BY <1>2, WithFacts DEF Moved
<1>3. Finish(t) => Alone(t) /\ task'[t].pc = "idle"
  BY FinishFacts, IdleFacts DEF Over
<1>4. \/ Finish(t)
      \/ \E pc \in {"inval", "cmd"} : Takes(t, NoFs, pc)
      \/ Takes(t, task[t].fs, "blank")
      \/ \E f \in found :
            \/ \E pc \in {"verify", "cmd", "get"} : Takes(t, f, pc)
            \/ task[t].op \in {"unmount", "options"} /\ Takes(t, f, "load")
  BY DEF Dispatch, With, Takes
<1> HIDE DEF found
<1>5. ASSUME NEW f \in {NoFs, task[t].fs}, NEW pc \in {"inval", "cmd", "blank"}, Takes(t, f, pc)
      PROVE  Alone(t) /\ task'[t].pc \in {"inval", "cmd", "blank"}
  <2>1. f \in Filesystem \cup {NoFs} /\ pc \in Pcs
    BY TaskFacts DEF Pcs
  <2> QED
    BY <1>2, <1>5, <2>1
<1>6. ASSUME NEW f \in found, NEW pc \in {"verify", "cmd", "get", "load"}, Takes(t, f, pc)
      PROVE  /\ Alone(t) /\ task'[t].pc = pc /\ task'[t].op = task[t].op /\ task'[t].fs = f
             /\ task'[t].todo = f.devs /\ f \in list
  BY <1>1, <1>2, <1>6
<1> QED
  BY <1>3, <1>4, <1>5, <1>6

\* A request goes on with what a list shows.
LEMMA RInv_Dispatch ==
  ASSUME RInv, IInv', NEW t \in Task, task[t].pc \in {"get", "fill"}, NEW list,
         list \subseteq Filesystem, NEW want, Dispatch(t, list, want),
         UNCHANGED <<sb, member, present, mnt, file>>, blame \subseteq blame',
         task[t].op = "destroy" /\ blame' = {} => \A f \in list : Covered(f.uuid, f.devs)
  PROVE  RInv'
<1>0. TypeOK /\ Bland(task[t]) /\ Grounded /\ Shrinks
  BY Grounded_Still DEF RInv, IInv, Bland
<1>1. /\ Alone(t)
      /\ \/ task'[t].pc \in {"idle", "inval", "cmd", "get", "blank"}
         \/ \E f \in list :
               /\ task'[t].fs = f /\ task'[t].todo = f.devs /\ task'[t].op = task[t].op
               /\ \/ task'[t].pc = "verify"
                  \/ task'[t].pc = "load" /\ task[t].op \in {"unmount", "options"}
  BY <1>0, Dispatch_Found
<1>2. CASE task'[t].pc \in {"idle", "inval", "cmd", "get", "blank"}
  BY <1>0, <1>1, <1>2, Aside_Step
<1>3. ASSUME NEW f \in list, task'[t].fs = f, task'[t].todo = f.devs, task'[t].op = task[t].op,
             \/ task'[t].pc = "verify"
             \/ task'[t].pc = "load" /\ task[t].op \in {"unmount", "options"}
      PROVE  RInv'
  <2>1. Bland(task'[t])
    BY <1>3 DEF Bland
  <2>2. FoundFs(t)'
    BY <1>3 DEF FoundFs, Filesystem
  <2>3. blame' = {} => WipesAll(t)'
    <3> SUFFICES ASSUME blame' = {}, task[t].op = "destroy"
                 PROVE  Covered(task[t].fs.uuid, task[t].todo)' /\ task'[t].pc = "verify"
      BY <1>3 DEF WipesAll
    <3>1. Covered(f.uuid, f.devs)
      BY <1>3
    <3>2. Covered(f.uuid, f.devs)'
      BY <3>1 DEF Covered, Mounted
    <3> QED
      BY <1>3, <3>2
  <2>4. blame' = {} => \A o \in Task : Recording(o) => mnt'[task[o].name] # 0
    BY DEF RInv, Faithful, MountStands
  <2> QED
    BY <1>0, <1>1, <2>1, <2>2, <2>3, <2>4, Bland_Step
<1> QED
  BY <1>1, <1>2, <1>3

\* list, from the cache or not.
LEMMA RInv_Get ==
  ASSUME RInv, IInv', NEW t \in Task,
         GetLegacy(t) \/ GetCached(t) \/ GetFresh(t) \/ GetFails(t) \/ Fill(t)
  PROVE  RInv'
<1>0. /\ TypeOK /\ Backed /\ task[t].pc \in {"get", "fill"} /\ Ready(t) /\ Bland(task[t])
      /\ UNCHANGED <<sb, member, present, mnt, file>> /\ blame \subseteq blame'
  BY DEF RInv, IInv, GetLegacy, GetCached, GetFresh, GetFails, Fill, Blame, kernel, Bland
<1>1. CASE GetLegacy(t)
  BY <1>0, <1>1, Ends_Step DEF GetLegacy
<1>2. CASE GetCached(t)
  <2>1. /\ cache.list \subseteq Filesystem /\ Dispatch(t, cache.list, Expected(t))
        /\ blame' = {} => cache.list \in list_complete(load_fs_state)
    BY <1>0, <1>2 DEF GetCached, TypeOK, Blame
  <2>2. blame' = {} => \A f \in cache.list : Covered(f.uuid, f.devs)
    BY <1>0, <2>1, LoadFacts, ListCovers
  <2> QED
    BY <1>0, <2>1, <2>2, RInv_Dispatch
<1>3. CASE GetFresh(t)
  <2>1. PICK l \in list_uncached(load_fs_state) :
           /\ Step(t, [task[t] EXCEPT !.pc = "fill", !.list = l, !.want = Expected(t)])
           /\ Blame((IF l \in list_complete(load_fs_state) THEN {} ELSE {"blind"})
                      \cup (IF file.ok THEN {} ELSE {"file"}))
    BY <1>3 DEF GetFresh
  <2>2. l \subseteq Filesystem /\ Expected(t) # Legacy /\ task[t] \in Request
    BY <1>0, <1>3, LoadFacts, ListFacts, TaskFacts DEF GetFresh
  <2>3. Expected(t) \in Uuid \cup {0}
    <3>1. task[t].op \notin {"list", "wipe"} =>
             load_fs_state[task[t].name].uuid \in Uuid \cup {0, Legacy}
      BY <1>0, <2>2, LoadFacts DEF Ready, Request, FsState, Entry
    <3>2. task[t].want \in Uuid \cup {0}
      BY <2>2 DEF Request
    <3> QED
      BY <2>2, <3>1, <3>2 DEF Expected
  <2> DEFINE m == [task[t] EXCEPT !.pc = "fill", !.list = l, !.want = Expected(t)]
  <2>4. m \in Request /\ m.pc = "fill" /\ m.list = l
    BY <2>2, <2>3, ZenonT(60) DEF Request
  <2>5. Step(t, m)
    BY <2>1
  <2> HIDE DEF m
  <2>6. Alone(t) /\ task'[t].pc = "fill" /\ task'[t].list = l
    BY <1>0, <2>4, <2>5, StepFacts
  <2>7. Bland(task'[t]) /\ FoundFs(t)' /\ Grounded /\ Shrinks
    BY <1>0, <2>6, Grounded_Still DEF Bland, FoundFs
  <2>8. ASSUME blame' = {} PROVE WipesAll(t)'
    <3>0. l \in list_complete(load_fs_state)
      BY <2>1, <2>8 DEF Blame
    <3>1. \A f \in l : Covered(f.uuid, f.devs)
      BY <1>0, <3>0, LoadFacts, ListCovers
    <3>2. \A f \in l : Covered(f.uuid, f.devs)'
      BY <1>0, <3>1 DEF Covered, Mounted
    <3> QED
      BY <2>6, <3>2 DEF WipesAll
  <2>9. blame' = {} => \A o \in Task : Recording(o) => mnt'[task[o].name] # 0
    BY <1>0 DEF RInv, Faithful, MountStands
  <2> QED
    BY <1>0, <2>6, <2>7, <2>8, <2>9, Bland_Step
<1>4. CASE Fill(t)
  <2>1. task[t].pc = "fill" /\ Dispatch(t, task[t].list, task[t].want)
    BY <1>4 DEF Fill
  <2>2. task[t].list \subseteq Filesystem
    BY <1>0, TaskFacts
  <2>3. task[t].op = "destroy" /\ blame' = {} =>
           \A f \in task[t].list : Covered(f.uuid, f.devs)
    BY <1>0, <2>1 DEF RInv, Faithful, WipesAll
  <2> QED
    BY <1>0, <2>1, <2>2, <2>3, RInv_Dispatch
<1>5. CASE GetFails(t)
  <2>0. task[t].pc = "get" /\ task[t].fs \in Filesystem \cup {NoFs}
    BY <1>0, <1>5, TaskFacts DEF GetFails
  <2>1. \/ Finish(t)
        \/ Takes(t, NoFs, "cmd")
        \/ Takes(t, task[t].fs, "blank")
    BY <1>5 DEF GetFails, With, Takes
  <2>2. CASE Finish(t)
    BY <1>0, <2>2, Ends_Step
  <2>3. ASSUME NEW f \in {NoFs, task[t].fs}, NEW pc \in {"cmd", "blank"}, Takes(t, f, pc)
        PROVE  RInv'
    <3>1. f \in Filesystem \cup {NoFs} /\ pc \in Pcs
      BY <2>0 DEF Pcs
    <3>2. Alone(t) /\ task'[t].pc = pc
      BY <1>0, <2>0, <2>3, <3>1, WithFacts DEF Moved
    <3> QED
      BY <1>0, <3>2, Aside_Step
  <2> QED
    BY <2>1, <2>2, <2>3
<1> QED
  BY <1>1, <1>2, <1>3, <1>4, <1>5

\* device_add has probed its device.
LEMMA RInv_AddProbe ==
  ASSUME RInv, IInv', NEW t \in Task, AddProbe(t)
  PROVE  RInv'
<1>0. /\ TypeOK /\ task[t].pc = "blank" /\ Bland(task[t])
      /\ UNCHANGED <<sb, member, present, mnt, file>> /\ blame \subseteq blame'
  BY DEF RInv, IInv, AddProbe, At, Blame, kernel, Bland
<1>1. CASE Finish(t)
  BY <1>0, <1>1, Ends_Step
<1>2. CASE Goto(t, "cmd")
  <2>1. Alone(t) /\ task'[t].pc = "cmd"
    BY <1>0, <1>2, GotoFacts DEF Kept, Moved, Pcs
  <2> QED
    BY <1>0, <2>1, Aside_Step
<1> QED
  BY <1>1, <1>2 DEF AddProbe

\* create formats a device that belongs to no mounted filesystem.
LEMMA RInv_Create ==
  ASSUME RInv, IInv', NEW t \in Task,
         CreatePlan(t) \/ revalidate_create_targets(t) \/ CreateFormat(t)
  PROVE  RInv'
<1>0. /\ TypeOK /\ Ready(t) /\ MemberInv /\ task[t].op = "create"
      /\ task[t].pc \in {"plan", "reserve", "format"} /\ Bland(task[t])
      /\ task[t].name \in Name /\ task[t].dev \in Dev
      /\ UNCHANGED <<present, mnt, file>> /\ blame \subseteq blame'
  BY DEF RInv, IInv, Ready, CreatePlan, revalidate_create_targets, CreateFormat, At, Blame,
         kernel, Bland
<1>1. ASSUME UNCHANGED <<sb, member>>,
             Finish(t) \/ (\E pc \in {"reserve", "format"} : Goto(t, pc))
      PROVE  RInv'
  <2>1. ASSUME NEW pc \in {"reserve", "format"}, Goto(t, pc) PROVE RInv'
    <3>1. Alone(t) /\ task'[t].pc = pc
      BY <1>0, <2>1, GotoFacts DEF Kept, Moved
    <3> QED
      BY <1>0, <1>1, <3>1, Aside_Step
  <2> QED
    BY <1>0, <1>1, <2>1, Ends_Step
<1>2. CASE CreatePlan(t) \/ revalidate_create_targets(t)
  BY <1>1, <1>2 DEF CreatePlan, revalidate_create_targets, kernel
<1>3. CASE CreateFormat(t)
  <2> DEFINE u == formatted + 1
             f == [name |-> task[t].name, uuid |-> u, devs |-> {task[t].dev}, at |-> NoName]
             m == [task[t] EXCEPT !.pc = "mount", !.fs = f]
  <2>0. lock = t /\ sb[task[t].dev] = 0
    BY <1>0, <1>3, Critical_Lock DEF CreateFormat, At, Ready, ExactTask, RInv
  <2>1. \/ Finish(t) /\ UNCHANGED <<sb, member>>
        \/ /\ formatted < MaxUuid /\ sb' = [sb EXCEPT ![task[t].dev] = u]
           /\ member' = member \cup {task[t].dev} /\ Step(t, m) /\ UNCHANGED blame
    BY <1>3 DEF CreateFormat
  <2>2. CASE Finish(t) /\ UNCHANGED <<sb, member>>
    BY <1>1, <2>2
  <2>3. CASE /\ formatted < MaxUuid /\ sb' = [sb EXCEPT ![task[t].dev] = u]
             /\ member' = member \cup {task[t].dev} /\ Step(t, m) /\ UNCHANGED blame
    <3>1. u \in Uuid
      BY <1>0, <2>3 DEF TypeOK, Uuid
    <3>2. f \in Filesystem /\ f.uuid = u
      BY <1>0, <3>1 DEF Filesystem
    <3> HIDE DEF f
    <3>3. m \in Request /\ m.pc = "mount" /\ m.op = "create" /\ m.fs = f
      <4>1. task[t] \in Request /\ f \in Filesystem \cup {NoFs}
        BY <1>0, <3>2, TaskFacts
      <4> QED
        BY <1>0, <4>1 DEF Request
    <3>4. Step(t, m)
      BY <2>3
    <3> HIDE DEF m
    <3>5. Alone(t) /\ task'[t] = m
      BY <1>0, <3>3, <3>4, StepFacts
    <3>6. Bland(task'[t]) /\ FoundFs(t)' /\ WipesAll(t)'
      BY <3>1, <3>2, <3>3, <3>5 DEF Bland, FoundFs, WipesAll
    <3>7. Grounded
      <4>1. \A d \in member : d \in member' /\ sb'[d] = sb[d]
        BY <1>0, <2>0, <2>3 DEF MemberInv, TypeOK
      <4> QED
        BY <1>0, <4>1 DEF Grounded
    <3>8. blame' = {} => \A o \in Task : Recording(o) => mnt'[task[o].name] # 0
      BY <1>0 DEF RInv, Faithful, MountStands
    <3> QED
      BY <1>0, <2>0, <3>5, <3>6, <3>7, <3>8, Bland_Step
  <2> QED
    BY <2>1, <2>2, <2>3
<1> QED
  BY <1>2, <1>3

-----------------------------------------------------------------------------
(* unmount, destroy and the devices.                                         *)

\* destroy wipes what shows its filesystem, and nothing that is mounted.
LEMMA RInv_Wipe ==
  ASSUME RInv, IInv', NEW t \in Task, DestroyWipe(t)
  PROVE  RInv'
<1>0. /\ TypeOK /\ Ready(t) /\ MemberInv /\ task[t].op = "destroy" /\ task[t].pc = "wipe"
      /\ UNCHANGED <<present, mnt, file, blame>> /\ Bland(task[t])
      /\ task[t] \in Request /\ task[t].todo \subseteq Dev
  BY TaskFacts DEF RInv, IInv, DestroyWipe, At, Bland
<1>1. /\ blame = {} => task[t].fs.uuid \in Uuid /\ Covered(task[t].fs.uuid, task[t].todo)
      /\ blame' = {} => \A o \in Task : Recording(o) => mnt'[task[o].name] # 0
  BY <1>0 DEF RInv, Faithful, FoundFs, WipesAll, MountStands
<1>2. CASE Finish(t) /\ UNCHANGED <<sb, member>>
  BY <1>0, <1>2, Ends_Step
<1>3. CASE task[t].todo = {} /\ Goto(t, "load") /\ UNCHANGED <<sb, member>>
  <2>1. /\ Alone(t) /\ task'[t].pc = "load" /\ task'[t].op = "destroy" /\ task'[t].fs = task[t].fs
    BY <1>0, <1>3, GotoFacts DEF Kept, Moved
  <2>2. Bland(task'[t]) /\ Grounded /\ Shrinks
    BY <1>0, <1>3, <2>1, Grounded_Still DEF Bland
  <2>3. blame' = {} => FoundFs(t)' /\ WipesAll(t)'
    <3> SUFFICES ASSUME blame' = {} PROVE FoundFs(t)' /\ WipesAll(t)'
      OBVIOUS
    <3>1. task[t].fs.uuid \in Uuid /\ Covered(task[t].fs.uuid, {})
      BY <1>0, <1>1, <1>3
    <3>2. Covered(task[t].fs.uuid, {})'
      BY <1>0, <1>3, <2>1, <3>1 DEF Covered, Mounted
    <3> QED
      BY <2>1, <3>1, <3>2 DEF FoundFs, WipesAll
  <2> QED
    BY <1>0, <1>1, <2>1, <2>2, <2>3, Bland_Step
<1>4. ASSUME NEW d \in task[t].todo, ~ Held(d), sb' = [sb EXCEPT ![d] = 0],
             member' = member \ {d}, Step(t, [task[t] EXCEPT !.todo = @ \ {d}])
      PROVE  RInv'
  <2> DEFINE m == [task[t] EXCEPT !.todo = @ \ {d}]
  <2>1. /\ m \in Request /\ m.pc = "wipe" /\ m.op = "destroy" /\ m.fs = task[t].fs
        /\ m.todo = task[t].todo \ {d}
    BY <1>0 DEF Request
  <2>2. Step(t, m)
    BY <1>4
  <2> HIDE DEF m
  <2>3. /\ Alone(t) /\ task'[t].pc = "wipe" /\ task'[t].op = "destroy"
        /\ task'[t].fs = task[t].fs /\ task'[t].todo = task[t].todo \ {d}
    BY <1>0, <2>1, <2>2, StepFacts
  <2>4. \A e \in member : sb[e] # 0 /\ (Mounted(sb[e]) => e # d)
    BY <1>0, <1>4 DEF MemberInv, Held
  <2>5. Grounded /\ Shrinks
    <3>1. \A e \in Dev : sb'[e] = IF e = d THEN 0 ELSE sb[e]
      BY <1>0, <1>4 DEF TypeOK
    <3>2. member \subseteq Dev
      BY <1>0 DEF TypeOK
    <3> QED
      BY <1>0, <1>4, <2>4, <3>1, <3>2 DEF Grounded, Shrinks, Mounted
  <2>6. blame' = {} => FoundFs(t)' /\ WipesAll(t)'
    <3> SUFFICES ASSUME blame' = {} PROVE FoundFs(t)' /\ WipesAll(t)'
      OBVIOUS
    <3> DEFINE u == task[t].fs.uuid
    <3>1. u \in Uuid /\ Covered(u, task[t].todo)
      BY <1>0, <1>1
    <3>2. Covered(u, task[t].todo \ {d})'
      <4>1. u # 0 /\ member \subseteq Dev
        BY <1>0, <3>1 DEF Uuid, TypeOK
      <4>2. \A e \in member' : e \in member /\ e # d /\ sb'[e] = sb[e]
        BY <1>0, <1>4, <4>1 DEF TypeOK
      <4>3. ASSUME Mounted(u) PROVE \E e \in member' : sb'[e] = u /\ e \in task[t].todo \ {d}
        <5>1. PICK e \in member : sb[e] = u /\ e \in task[t].todo
          BY <3>1, <4>3 DEF Covered
        <5>2. e # d
          BY <2>4, <4>3, <5>1
        <5> QED
          BY <1>4, <4>2, <5>1, <5>2
      <4>4. \A e \in member' \cap present : sb'[e] = u => e \in task[t].todo \ {d}
        BY <3>1, <4>2 DEF Covered
      <4>5. task'[t].fs.uuid = u
        BY <2>3
      <4> QED
        BY <1>0, <2>3, <4>3, <4>4, <4>5 DEF Covered, Mounted
    <3> QED
      BY <2>3, <3>1, <3>2 DEF FoundFs, WipesAll
  <2>7. Bland(task'[t])
    BY <2>3 DEF Bland
  <2> QED
    BY <1>0, <1>1, <2>3, <2>5, <2>6, <2>7, Bland_Step
<1> QED
  BY <1>2, <1>3, <1>4 DEF DestroyWipe

\* unmount and destroy unmount; they are to blame when that is being recorded.
LEMMA RInv_Unmount ==
  ASSUME RInv, IInv', NEW t \in Task, UnmountVerify(t) \/ Umount(t)
  PROVE  RInv'
<1>0. /\ TypeOK /\ task[t].op \in {"unmount", "destroy"} /\ task[t].pc \in {"verify", "umount"}
      /\ Bland(task[t]) /\ UNCHANGED <<sb, member, present, file>> /\ blame \subseteq blame'
  BY DEF RInv, IInv, UnmountVerify, Umount, Bland, Blame, kernel
<1>1. \A n \in Name : mnt'[n] \in {mnt[n], 0}
  <2>1. CASE UnmountVerify(t)
    BY <2>1 DEF UnmountVerify, kernel
  <2>2. CASE Umount(t)
    <3> DEFINE after == IF task[t].fs.at = NoName THEN mnt
                        ELSE [mnt EXCEPT ![task[t].fs.at] = 0]
    <3>1. after \in [Name -> Uuid \cup {0}] /\ \A n \in Name : after[n] \in {mnt[n], 0}
      BY <1>0, TaskFacts DEF TypeOK
    <3>2. mnt' = mnt \/ mnt' = after \/ \E n \in Name : mnt' = [after EXCEPT ![n] = 0]
      BY <2>2 DEF Umount
    <3> HIDE DEF after
    <3> QED
      BY <1>0, <3>1, <3>2 DEF TypeOK
  <2> QED
    BY <2>1, <2>2
<1>2. blame' = {} => \A o \in Task : Recording(o) => mnt'[task[o].name] # 0
  <2>1. CASE UnmountVerify(t)
    BY <1>0, <2>1 DEF UnmountVerify, kernel, RInv, Faithful, MountStands
  <2>2. CASE Umount(t)
    BY <2>2 DEF Umount, Blame
  <2> QED
    BY <2>1, <2>2
<1>3. Grounded /\ Shrinks
  BY <1>0, <1>1, Grounded_Still
<1>4. \/ Finish(t)
      \/ Goto(t, "load") /\ task[t].op = "unmount"
      \/ Goto(t, "wipe") /\ task[t].op = "destroy"
      \/ Goto(t, "umount")
  BY <1>0 DEF UnmountVerify, Umount
<1>5. CASE Finish(t)
  <2>1. Alone(t) /\ task'[t].pc = "idle"
    BY <1>0, <1>5, FinishFacts, IdleFacts DEF Over
  <2>2. Bland(task'[t]) /\ FoundFs(t)' /\ WipesAll(t)'
    BY <2>1 DEF Bland, FoundFs, WipesAll
  <2> QED
    BY <1>0, <1>1, <1>2, <1>3, <2>1, <2>2, Bland_Step
<1>6. ASSUME NEW pc \in {"load", "wipe", "umount"}, Goto(t, pc),
             pc = "load" => task[t].op = "unmount"
      PROVE  RInv'
  <2>1. /\ Alone(t) /\ task'[t].pc = pc /\ task'[t].op = task[t].op
        /\ task'[t].fs = task[t].fs /\ task'[t].todo = task[t].todo
    BY <1>0, <1>6, GotoFacts DEF Kept, Moved
  <2>2. Bland(task'[t])
    BY <1>0, <1>6, <2>1 DEF Bland
  <2>3. blame' = {} => FoundFs(t)' /\ WipesAll(t)'
    <3> SUFFICES ASSUME blame' = {} PROVE FoundFs(t)' /\ WipesAll(t)'
      OBVIOUS
    <3>1. /\ task[t].fs.uuid \in Uuid
          /\ task[t].op = "destroy" => Covered(task[t].fs.uuid, task[t].todo)
      BY <1>0 DEF RInv, Faithful, FoundFs, WipesAll
    <3>2. ASSUME task[t].op = "destroy" PROVE Covered(task[t].fs.uuid, task[t].todo)'
      BY <1>0, <1>3, <2>1, <3>1, <3>2, Covered_Step
    <3> QED
      BY <1>6, <2>1, <3>1, <3>2 DEF FoundFs, WipesAll
  <2> QED
    BY <1>0, <1>1, <1>2, <1>3, <2>1, <2>2, <2>3, Bland_Step
<1> QED
  BY <1>4, <1>5, <1>6

\* device_wipe, device_add and device_remove leave every mounted filesystem a member.
LEMMA RInv_Device ==
  ASSUME RInv, IInv', NEW t \in Task, DeviceCommand(t)
  PROVE  RInv'
<1> DEFINE d == task[t].dev
           on == IF task[t].fs.at = NoName THEN 0 ELSE mnt[task[t].fs.at]
<1>0. /\ TypeOK /\ Ready(t) /\ MemberInv /\ task[t].pc = "cmd" /\ Bland(task[t])
      /\ UNCHANGED <<present, mnt, file, blame>> /\ member \subseteq Dev
  BY DEF RInv, IInv, DeviceCommand, Bland, TypeOK
<1>1. \/ Finish(t) /\ UNCHANGED <<sb, member>>
      \/ /\ Goto(t, "inval")
         /\ \/ task[t].op = "wipe" /\ ~ Held(d) /\ sb' = [sb EXCEPT ![d] = 0] /\ member' = member \ {d}
            \/ task[t].op = "add" /\ ~ Held(d) /\ sb' = [sb EXCEPT ![d] = on] /\ member' = member \cup {d}
            \/ /\ sb[d] = on /\ sb' \in {sb, [sb EXCEPT ![d] = 0]} /\ member' = member \ {d}
               /\ \E other \in (member \cap present) \ {d} : sb[other] = on
  BY DEF DeviceCommand
<1>2. CASE Finish(t) /\ UNCHANGED <<sb, member>>
  BY <1>0, <1>2, Ends_Step
<1>3. CASE /\ Goto(t, "inval")
           /\ \/ task[t].op = "wipe" /\ ~ Held(d) /\ sb' = [sb EXCEPT ![d] = 0] /\ member' = member \ {d}
              \/ task[t].op = "add" /\ ~ Held(d) /\ sb' = [sb EXCEPT ![d] = on] /\ member' = member \cup {d}
              \/ /\ sb[d] = on /\ sb' \in {sb, [sb EXCEPT ![d] = 0]} /\ member' = member \ {d}
                 /\ \E other \in (member \cap present) \ {d} : sb[other] = on
  <2>1. Alone(t) /\ task'[t].pc = "inval"
    BY <1>0, <1>3, GotoFacts DEF Kept, Moved
  <2>2. Bland(task'[t]) /\ FoundFs(t)' /\ WipesAll(t)'
    BY <2>1 DEF Bland, FoundFs, WipesAll
  <2>3. \A e \in Dev : e # d => sb'[e] = sb[e]
    BY <1>0, <1>3 DEF TypeOK
  <2>4. \A e \in member : e # d => e \in member'
    BY <1>3
  <2>5. Grounded
    <3> SUFFICES ASSUME NEW x \in member, Mounted(sb[x])
                 PROVE  \E e \in member \cap member' :
                           sb[e] = sb[x] /\ sb'[e] = sb[x] /\ (e = x \/ e \in present)
      BY <1>0 DEF Grounded, Mounted
    <3>1. CASE x # d
      BY <1>0, <2>3, <2>4, <3>1
    <3>2. CASE x = d
      <4>1. Held(d)
        BY <1>0, <3>2 DEF Held, MemberInv
      <4>2. PICK other \in (member \cap present) \ {d} : sb[other] = sb[d]
        BY <1>3, <4>1
      <4> QED
        BY <1>0, <2>3, <2>4, <3>2, <4>2
    <3> QED
      BY <3>1, <3>2
  <2>6. lock # t => Shrinks
    <3>1. task[t].op \in {"wipe", "add"} => lock = t
      BY <1>0, Critical_Lock DEF RInv
    <3>2. task[t].op \notin {"wipe", "add"} =>
             sb' \in {sb, [sb EXCEPT ![d] = 0]} /\ member' = member \ {d}
      BY <1>3
    <3>3. task[t].op \notin {"wipe", "add"} => \A e \in Dev : sb'[e] \in {sb[e], 0}
      BY <1>0, <3>2 DEF TypeOK
    <3> QED
      BY <1>0, <3>1, <3>2, <3>3 DEF Shrinks
  <2>7. blame' = {} => \A o \in Task : Recording(o) => mnt'[task[o].name] # 0
    BY <1>0 DEF RInv, Faithful, MountStands
  <2> QED
    BY <1>0, <2>1, <2>2, <2>5, <2>6, <2>7, Bland_Step
<1> QED
  BY <1>1, <1>2, <1>3

-----------------------------------------------------------------------------
(* mount_with_opts and the registry file.                                    *)

\* A step that is to blame keeps what does not depend on blame.
LEMMA Blamed_Step ==
  ASSUME RInv, IInv', Grounded, blame' # {}
  PROVE  RInv'
  BY Backed_Step DEF RInv, IInv

\* mount looks at the mount point and the devices.
LEMMA RInv_MountVerify ==
  ASSUME RInv, IInv', NEW t \in Task, MountVerify(t)
  PROVE  RInv'
<1>0. /\ TypeOK /\ task[t].op = "mount" /\ task[t].pc = "verify" /\ Bland(task[t])
      /\ UNCHANGED <<sb, member, present, mnt, file, blame>>
      /\ \E pc \in {"inval", "mount"} : Goto(t, pc)
  BY DEF RInv, IInv, MountVerify, At, Bland
<1>1. PICK pc \in {"inval", "mount"} : Goto(t, pc)
  BY <1>0
<1>2. /\ Alone(t) /\ task'[t].pc = pc /\ task'[t].op = task[t].op /\ task'[t].fs = task[t].fs
  BY <1>0, <1>1, GotoFacts DEF Kept, Moved
<1>3. Bland(task'[t]) /\ Grounded /\ Shrinks /\ WipesAll(t)'
  BY <1>0, <1>2, Grounded_Still DEF Bland, WipesAll
<1>4. blame' = {} => /\ FoundFs(t)'
                     /\ \A o \in Task : Recording(o) => mnt'[task[o].name] # 0
  BY <1>0, <1>2 DEF RInv, Faithful, FoundFs, MountStands
<1> QED
  BY <1>0, <1>2, <1>3, <1>4, Bland_Step

\* The request goes to a point where it records a mount.
LEMMA RInv_Records ==
  ASSUME RInv, IInv', NEW t \in Task, NEW pc \in {"check", "load"}, Kept(t, pc), Grounded,
         Shrinks, UNCHANGED file, blame \subseteq blame', task[t].name \in Name,
         task[t].op \in {"mount", "create"}, task[t].pc \in {"mount", "check"},
         \A n \in Name \ {task[t].name} : mnt'[n] = mnt[n], mnt'[task[t].name] # 0,
         \/ task[t].pc = "mount" /\ mnt[task[t].name] = 0
         \/ task[t].pc = "check" /\ mnt'[task[t].name] = mnt[task[t].name],
         pc = "load" => mnt'[task[t].name] = task[t].fs.uuid
  PROVE  RInv'
<1> DEFINE n == task[t].name
<1>0. /\ Alone(t) /\ task'[t].pc = pc /\ task'[t].op = task[t].op /\ task'[t].fs = task[t].fs
      /\ task'[t].name = n
  BY DEF Kept, Moved
<1>1. ASSUME blame' = {}
      PROVE  /\ Considerate(t) /\ Agreed' /\ Faithful(t)'
             /\ Recording(t) \/ mnt[task'[t].name] = 0
  <2>0. blame = {} /\ \A o \in Task : Faithful(o)
    BY <1>1 DEF RInv
  <2>1. \A m : Recorder(t, m)' <=> m = n
    BY <1>0 DEF Recorder
  <2>2. \A m : Recorder(t, m) => m = n
    BY DEF Recorder
  <2>3. \A o \in Task : Recording(o) => task[o].name \in Name /\ mnt[task[o].name] # 0
    BY <2>0 DEF Recording, RInv, IInv, Ready, Faithful, MountStands
  <2>4. Considerate(t)
    BY <2>1, <2>2, <2>3 DEF Considerate
  <2>5. Agreed'
    BY <1>0, <2>0, <2>1, <2>2, <2>4, Agreed_Step
  <2>6. Faithful(t)'
    <3>1. task[t].fs.uuid \in Uuid
      BY <2>0 DEF Faithful, FoundFs
    <3>2. FoundFs(t)' /\ MountStands(t)'
      BY <1>0, <3>1 DEF FoundFs, MountStands, Recording
    <3>3. /\ SnapCurrent(t)' /\ SnapAgrees(t)' /\ Torn(t)' /\ WipesAll(t)' /\ ProbesEntry(t)'
          /\ ErasesGone(t)'
      BY <1>0 DEF SnapCurrent, SnapAgrees, Torn, WipesAll, ProbesEntry, ErasesGone, Holding
    <3> QED
      BY <3>2, <3>3 DEF Faithful
  <2>7. Recording(t) \/ mnt[task'[t].name] = 0
    BY <1>0 DEF Recording
  <2> QED
    BY <2>4, <2>5, <2>6, <2>7
<1> QED
  BY <1>0, <1>1, RInv_Compose

\* mount mounts what is on the devices, a member among them.
LEMMA RInv_MountCommand ==
  ASSUME RInv, IInv', NEW t \in Task, MountCommand(t)
  PROVE  RInv'
<1> DEFINE r == task[t]
           now == {sb[d] : d \in r.fs.devs \cap present}
<1>0. /\ TypeOK /\ r.pc = "mount" /\ r.op \in {"mount", "create"} /\ r.name \in Name
      /\ Bland(r) /\ UNCHANGED <<sb, member, present, file, blame>>
  <2>1. TypeOK /\ Ready(t) /\ r.pc = "mount" /\ UNCHANGED <<sb, member, present, file, blame>>
    BY DEF RInv, IInv, MountCommand
  <2> QED
    BY <2>1 DEF Ready, Bland
<1>1. \/ /\ r.fs.devs \subseteq present /\ r.fs.devs \cap member # {} /\ mnt[r.name] = 0
         /\ \E u \in Uuid : now = {u} /\ mnt' = [mnt EXCEPT ![r.name] = u]
         /\ Goto(t, "check")
      \/ Goto(t, "inval") /\ UNCHANGED mnt
      \/ Finish(t) /\ UNCHANGED mnt
  BY DEF MountCommand
<1>2. CASE Goto(t, "inval") /\ UNCHANGED mnt
  <2>1. Alone(t) /\ task'[t].pc = "inval"
    BY <1>0, <1>2, GotoFacts DEF Kept, Moved
  <2> QED
    BY <1>0, <1>2, <2>1, Aside_Step
<1>3. CASE Finish(t) /\ UNCHANGED mnt
  BY <1>0, <1>3, Ends_Step
<1>4. ASSUME r.fs.devs \subseteq present, r.fs.devs \cap member # {}, mnt[r.name] = 0,
             NEW u \in Uuid, now = {u}, mnt' = [mnt EXCEPT ![r.name] = u], Goto(t, "check")
      PROVE  RInv'
  <2>1. Kept(t, "check")
    BY <1>0, <1>4, GotoFacts
  <2>2. PICK d \in r.fs.devs \cap member : d \in present /\ sb[d] = u
    BY <1>4
  <2>3. mnt'[r.name] = u /\ u # 0 /\ \A n \in Name \ {r.name} : mnt'[n] = mnt[n]
    BY <1>0, <1>4 DEF TypeOK, Uuid
  <2>4. Grounded /\ Shrinks
    BY <1>0, <2>2, <2>3 DEF Grounded, Shrinks
  <2> QED
    BY <1>0, <1>4, <2>1, <2>3, <2>4, RInv_Records
<1> QED
  BY <1>1, <1>2, <1>3, <1>4

\* What is mounted is read back; a wrong filesystem is unmounted again.
LEMMA RInv_MountCheck ==
  ASSUME RInv, IInv', NEW t \in Task, MountCheck(t)
  PROVE  RInv'
<1> DEFINE n == task[t].name
<1>0. /\ TypeOK /\ task[t].pc = "check" /\ task[t].op \in {"mount", "create"} /\ n \in Name
      /\ UNCHANGED <<sb, member, present, file>> /\ blame \subseteq blame'
  <2>1. /\ TypeOK /\ Ready(t) /\ task[t].pc = "check" /\ UNCHANGED <<sb, member, present, file>>
        /\ blame \subseteq blame'
    BY DEF RInv, IInv, MountCheck, Blame
  <2> QED
    BY <2>1 DEF Ready
<1>1. \/ mnt[n] = task[t].fs.uuid /\ Goto(t, "load") /\ UNCHANGED mnt
      \/ mnt' = [mnt EXCEPT ![n] = 0] /\ (Goto(t, "inval") \/ Finish(t))
      \/ UNCHANGED mnt /\ blame' # {}
  BY DEF MountCheck, Blame
<1>2. \A m \in Name : mnt'[m] \in {mnt[m], 0}
  BY <1>0, <1>1 DEF TypeOK
<1>3. Grounded /\ Shrinks
  BY <1>0, <1>2, Grounded_Still
<1>4. CASE blame' # {}
  BY <1>3, <1>4, Blamed_Step
<1>5. CASE blame' = {} /\ mnt[n] = task[t].fs.uuid /\ Goto(t, "load") /\ UNCHANGED mnt
  <2>1. Kept(t, "load")
    BY <1>0, <1>5, GotoFacts
  <2>2. mnt[n] # 0
    BY <1>0, <1>5 DEF RInv, Faithful, MountStands, Recording
  <2> QED
    BY <1>0, <1>3, <1>5, <2>1, <2>2, RInv_Records
<1>6. CASE blame' = {} /\ mnt' = [mnt EXCEPT ![n] = 0] /\ (Goto(t, "inval") \/ Finish(t))
  <2>0. blame = {} /\ OneRecorder /\ Recording(t) /\ \A o \in Task : MountStands(o)
    BY <1>0, <1>6 DEF RInv, Recording, Faithful
  <2>1. Alone(t) /\ task'[t].pc \in {"inval", "idle"}
    BY <1>0, <1>6, GotoFacts, FinishFacts, IdleFacts DEF Kept, Moved, Over
  <2>2. mnt'[n] = 0 /\ \A m \in Name \ {n} : mnt'[m] = mnt[m]
    BY <1>0, <1>6 DEF TypeOK
  <2>3. \A m : Recorder(t, m) => m = n
    BY DEF Recorder
  <2>4. \A o \in Task \ {t} : Recording(o) => task[o].name \in Name \ {n}
    BY <2>0 DEF OneRecorder, Recording, RInv, IInv, Ready
  <2>5. Considerate(t)
    BY <1>0, <1>2, <2>2, <2>3, <2>4 DEF Considerate
  <2>6. Agreed'
    BY <1>0, <2>0, <2>1, <2>2, <2>3, <2>5, Agreed_Step
  <2>7. Faithful(t)' /\ ~ Recording(t)'
    BY <2>1 DEF Faithful, FoundFs, MountStands, SnapCurrent, SnapAgrees, Torn, WipesAll,
                ProbesEntry, ErasesGone, Holding, Recording
  <2> QED
    BY <1>0, <1>3, <2>1, <2>5, <2>6, <2>7, RInv_Compose
<1> QED
  BY <1>1, <1>4, <1>5, <1>6

\* Goto keeps what the request has read.
LEMMA GotoSnap ==
  ASSUME TypeOK, NEW t \in Task, task[t].pc # "idle", NEW pc \in Pcs, Goto(t, pc)
  PROVE  Kept(t, pc) /\ task'[t].snap = task[t].snap
<1>0. task[t] \in Request
  BY TaskFacts
<1> DEFINE m == [task[t] EXCEPT !.pc = pc]
<1>1. m \in Request /\ m.snap = task[t].snap
  BY <1>0 DEF Request
<1>2. Step(t, m)
  BY DEF Goto
<1> HIDE DEF m
<1>3. task'[t].snap = task[t].snap
  BY <1>1, <1>2, StepFacts
<1> QED
  BY <1>3, GotoFacts

\* What a request makes of its own entry in the registry it read.
LEMMA UpdatedEntry ==
  ASSUME TypeOK, NEW t \in Task, NEW reg \in FsState, task[t].name \in Name
  PROVE  /\ task[t].op \in {"mount", "create"} =>
               Updated(t, reg)[task[t].name] = MountedEntry(task[t].fs.uuid)
         /\ task[t].op = "unmount" =>
               Updated(t, reg)[task[t].name] = [uuid |-> task[t].fs.uuid, up |-> FALSE]
         /\ task[t].op = "options" =>
               Updated(t, reg)[task[t].name] =
                  [uuid |-> task[t].fs.uuid,
                   up |-> reg[task[t].name] = NoEntry \/ reg[task[t].name].up]
         /\ task[t].op \in {"destroy", "forget"} => Updated(t, reg)[task[t].name] = NoEntry
<1>0. reg \in [Name -> Entry]
  BY DEF FsState
<1>1. CASE task[t].op \in {"mount", "create"}
  BY <1>0, <1>1 DEF Updated, MountedEntry
<1>2. CASE task[t].op = "unmount"
  BY <1>0, <1>2 DEF Updated
<1>3. CASE task[t].op = "options"
  BY <1>0, <1>3 DEF Updated
<1>4. CASE task[t].op \in {"destroy", "forget"}
  BY <1>0, <1>4 DEF Updated
<1> QED
  BY <1>1, <1>2, <1>3, <1>4

\* The entries of other names stay.
LEMMA UpdatedOther ==
  ASSUME TypeOK, NEW t \in Task, NEW reg \in FsState, task[t].name \in Name,
         task[t].op \in {"mount", "create", "unmount", "options", "destroy", "forget"},
         NEW m \in Name, m # task[t].name
  PROVE  Updated(t, reg)[m] = reg[m]
<1>0. reg \in [Name -> Entry]
  BY DEF FsState
<1>1. CASE task[t].op \in {"mount", "create"}
  BY <1>0, <1>1 DEF Updated
<1>2. CASE task[t].op = "unmount"
  BY <1>0, <1>2 DEF Updated
<1>3. CASE task[t].op = "options"
  BY <1>0, <1>3 DEF Updated
<1>4. CASE task[t].op \in {"destroy", "forget"}
  BY <1>0, <1>4 DEF Updated
<1> QED
  BY <1>1, <1>2, <1>3, <1>4

\* Only destroy and forget_unavailable remove an entry.
LEMMA UpdatedErases ==
  ASSUME TypeOK, NEW t \in Task, NEW reg \in FsState, task[t].name \in Name,
         task[t].op \in {"mount", "create", "unmount", "options", "destroy", "forget"},
         task[t].fs.uuid # 0, Updated(t, reg)[task[t].name] = NoEntry
  PROVE  task[t].op \in {"destroy", "forget"}
<1>1. \A up : [uuid |-> task[t].fs.uuid, up |-> up] # NoEntry
  BY DEF NoEntry
<1>2. CASE task[t].op \in {"mount", "create"}
  BY <1>1, <1>2, UpdatedEntry DEF MountedEntry
<1>3. CASE task[t].op = "unmount"
  BY <1>1, <1>3, UpdatedEntry
<1>4. CASE task[t].op = "options"
  BY <1>1, <1>4, UpdatedEntry
<1> QED
  BY <1>2, <1>3, <1>4

\* A step that changes neither the mounts nor what the file says.
LEMMA RInv_File ==
  ASSUME RInv, IInv', NEW t \in Task, Alone(t), UNCHANGED <<sb, member, present, mnt>>,
         file'.reg = file.reg, file'.ok => file.ok, blame \subseteq blame',
         task'[t].pc \notin {"check", "load"},
         blame' = {} => Faithful(t)' /\ \A n \in Name : Recorder(t, n) => Recorder(t, n)'
  PROVE  RInv'
<1>0. Grounded /\ Shrinks
  BY Grounded_Still
<1>1. ~ Recording(t)'
  BY DEF Recording
<1>2. ASSUME blame' = {} PROVE Considerate(t) /\ Agreed' /\ Faithful(t)'
  <2>1. blame = {} /\ Considerate(t)
    BY <1>2 DEF Considerate
  <2> QED
    BY <1>2, <2>1, Agreed_Step
<1> QED
  BY <1>0, <1>1, <1>2, RInv_Compose

\* What a request is about to write is right when it is not overtaken.
LEMMA LoadAgrees ==
  ASSUME RInv, blame = {}, NEW t \in Task, task[t].pc = "load", file.ok, ~ Overtaken(t),
         mnt[task[t].name] # 0
  PROVE  \/ Updated(t, file.reg)[task[t].name] = MountedEntry(mnt[task[t].name])
         \/ \E o \in Task \ {t} : Recorder(o, task[t].name)
<1> DEFINE n == task[t].name
           u == task[t].fs.uuid
<1>0. /\ TypeOK /\ Ready(t) /\ Faithful(t) /\ Agreed /\ load_fs_state = file.reg
      /\ file.reg \in FsState /\ task[t].op \in {"mount", "create", "unmount", "options", "destroy"}
      /\ n \in Name
  <2>1. TypeOK /\ Ready(t) /\ Faithful(t) /\ Agreed /\ load_fs_state = file.reg
    BY DEF RInv, IInv, load_fs_state
  <2>2. file.reg \in FsState
    BY <2>1, LoadFacts
  <2> QED
    BY <2>1, <2>2 DEF Ready
<1>1. CASE task[t].op \in {"mount", "create"}
  <2>1. mnt[n] = u
    BY <1>0, <1>1 DEF Faithful, MountStands, Recording
  <2>2. Updated(t, file.reg)[n] = MountedEntry(u)
    BY <1>0, <1>1, UpdatedEntry
  <2> QED
    BY <2>1, <2>2
<1>2. CASE task[t].op \in {"unmount", "options", "destroy"}
  <2>1. file.reg[n].uuid \in {0, u}
    BY <1>0, <1>2 DEF Overtaken
  <2>2. ASSUME NEW o \in Task, Recorder(o, n) PROVE o # t
    BY <1>2, <2>2 DEF Recorder
  <2>3. ASSUME file.reg[n] = MountedEntry(mnt[n])
        PROVE  Updated(t, file.reg)[n] = MountedEntry(mnt[n])
    <3>1. file.reg[n].uuid = mnt[n] /\ file.reg[n].up = TRUE
      BY <2>3 DEF MountedEntry
    <3>2. mnt[n] = u /\ Mounted(u)
      BY <1>0, <2>1, <3>1 DEF Mounted
    <3>3. task[t].op # "unmount"
      BY <3>2 DEF Overtaken
    <3>4. task[t].op # "destroy"
      BY <1>0, <3>2 DEF Faithful, WipesAll, Covered
    <3>5. task[t].op = "options"
      BY <1>2, <3>3, <3>4
    <3>6. (file.reg[n] = NoEntry \/ file.reg[n].up) = TRUE
      BY <3>1
    <3> QED
      BY <1>0, <3>2, <3>5, <3>6, UpdatedEntry, ZenonT(60) DEF MountedEntry
  <2> QED
    BY <1>0, <2>2, <2>3 DEF Agreed
<1> QED
  BY <1>0, <1>1, <1>2

\* The registry is read and changed.
LEMMA RInv_LoadState ==
  ASSUME RInv, IInv', NEW t \in Task, LoadState(t)
  PROVE  RInv'
<1> DEFINE n == task[t].name
           gone == task[t].op = "destroy" /\ load_fs_state[n] = NoEntry
           m == [task[t] EXCEPT !.pc = "trunc", !.snap = Updated(t, load_fs_state)]
<1>0. /\ TypeOK /\ Ready(t) /\ task[t].pc = "load" /\ blame \subseteq blame'
      /\ UNCHANGED <<sb, member, present, mnt, file>>
      /\ IF gone THEN Goto(t, "inval") ELSE Step(t, m)
      /\ blame' = {} => file.ok /\ ~ Overtaken(t)
  BY DEF RInv, IInv, LoadState, kernel, Blame
<1>1. /\ task[t].op \in {"mount", "create", "unmount", "options", "destroy"} /\ n \in Name
      /\ load_fs_state \in FsState /\ (file.ok => load_fs_state = file.reg)
      /\ task[t] \in Request
  BY <1>0, LoadFacts, TaskFacts DEF Ready, load_fs_state
<1>2. CASE gone
  <2>1. Alone(t) /\ task'[t].pc = "inval"
    BY <1>0, <1>2, GotoFacts DEF Kept, Moved
  <2>2. Bland(task[t])
    BY <1>0, <1>2 DEF Bland
  <2> QED
    BY <1>0, <2>1, <2>2, Aside_Step
<1>3. CASE ~ gone
  <2>1. Updated(t, load_fs_state) \in FsState
    BY <1>0, <1>1, UpdatedFacts
  <2>2. /\ m \in Request /\ m.pc = "trunc" /\ m.op = task[t].op /\ m.name = n
        /\ m.snap = Updated(t, load_fs_state)
    BY <1>1, <2>1 DEF Request
  <2>3. Step(t, m)
    BY <1>0, <1>3
  <2> HIDE DEF m
  <2>4. /\ Alone(t) /\ task'[t].pc = "trunc" /\ task'[t].op = task[t].op /\ task'[t].name = n
        /\ task'[t].snap = Updated(t, load_fs_state)
    BY <1>0, <2>2, <2>3, StepFacts
  <2>5. ASSUME blame' = {}
        PROVE  Faithful(t)' /\ \A x \in Name : Recorder(t, x) => Recorder(t, x)'
    <3>0. /\ blame = {} /\ file.ok /\ ~ Overtaken(t) /\ load_fs_state = file.reg
          /\ Faithful(t) /\ task'[t].snap = Updated(t, file.reg) /\ file.reg \in FsState
      BY <1>0, <1>1, <2>4, <2>5 DEF RInv
    <3>1. /\ FoundFs(t)' /\ MountStands(t)' /\ Torn(t)' /\ WipesAll(t)' /\ ProbesEntry(t)'
      BY <2>4 DEF FoundFs, MountStands, Recording, Torn, WipesAll, ProbesEntry
    <3>2. SnapCurrent(t)'
      <4>0. /\ TypeOK /\ file.reg \in FsState /\ task[t].name \in Name
            /\ task[t].op \in {"mount", "create", "unmount", "options", "destroy", "forget"}
        BY <1>0, <1>1, <3>0
      <4>1. \A x \in Name \ {n} : Updated(t, file.reg)[x] = file.reg[x]
        BY <4>0, UpdatedOther
      <4> QED
        BY <1>0, <1>1, <2>4, <3>0, <4>1 DEF SnapCurrent
    <3>3. SnapAgrees(t)'
      <4> SUFFICES ASSUME mnt[n] # 0
                   PROVE  \/ Updated(t, file.reg)[n] = MountedEntry(mnt[n])
                          \/ \E o \in Task \ {t} : Recorder(o, n)'
        BY <1>0, <2>4, <3>0 DEF SnapAgrees, MountedEntry
      <4>1. ASSUME NEW o \in Task \ {t}, Recorder(o, n) PROVE Recorder(o, n)'
        BY <2>4, <4>1 DEF Recorder, Alone
      <4> QED
        BY <1>0, <3>0, <4>1, LoadAgrees
    <3>4. ErasesGone(t)'
      <4> SUFFICES ASSUME Updated(t, file.reg)[n] = NoEntry
                   PROVE  /\ task[t].op \in {"destroy", "forget"}
                          /\ file.reg[n].uuid \in Uuid => Covered(file.reg[n].uuid, {})'
        BY <1>0, <2>4, <3>0 DEF ErasesGone
      <4>1. task[t].fs.uuid \in Uuid /\ task[t].fs.uuid # 0
        BY <1>0, <3>0 DEF Faithful, FoundFs, Uuid
      <4>2. task[t].op = "destroy"
        <5>1. /\ TypeOK /\ file.reg \in FsState /\ task[t].name \in Name
              /\ task[t].op \in {"mount", "create", "unmount", "options", "destroy"}
          BY <1>0, <1>1, <3>0
        <5>2. task[t].op \in {"destroy", "forget"}
          BY <4>1, <5>1, UpdatedErases
        <5> QED
          BY <5>1, <5>2
      <4>3. file.reg[n].uuid \in {0, task[t].fs.uuid} /\ Covered(task[t].fs.uuid, {})
        BY <1>0, <3>0, <4>2 DEF Overtaken, Faithful, WipesAll
      <4>4. file.reg[n].uuid \in Uuid => Covered(file.reg[n].uuid, {})
        BY <4>3 DEF Uuid
      <4>5. file.reg[n].uuid \in Uuid => Covered(file.reg[n].uuid, {})'
        BY <1>0, <2>4, <4>4 DEF Covered, Mounted
      <4> QED
        BY <4>2, <4>5
    <3>5. \A x \in Name : Recorder(t, x) => Recorder(t, x)'
      BY <2>4 DEF Recorder
    <3> QED
      BY <3>1, <3>2, <3>3, <3>4, <3>5 DEF Faithful
  <2> QED
    BY <1>0, <2>4, <2>5, RInv_File
<1> QED
  BY <1>2, <1>3

\* forget_unavailable reads the registry while nothing is mounted there ...
LEMMA RInv_ForgetLoad ==
  ASSUME RInv, IInv', NEW t \in Task, ForgetLoad(t)
  PROVE  RInv'
<1> DEFINE n == task[t].name
           u == file.reg[n].uuid
           m == [task[t] EXCEPT !.pc = "probe", !.want = u, !.snap = Updated(t, file.reg)]
<1>0. /\ TypeOK /\ Ready(t) /\ task[t].op = "forget" /\ task[t].pc = "plan" /\ n \in Name
      /\ UNCHANGED <<sb, member, present, mnt, file, blame>>
      /\ \/ Finish(t)
         \/ u \in Uuid /\ mnt[n] = 0 /\ Step(t, m)
  BY DEF RInv, IInv, Ready, ForgetLoad, At, kernel
<1>1. file.reg \in FsState /\ task[t] \in Request /\ Bland(task[t])
  BY <1>0, LoadFacts, TaskFacts DEF Bland
<1>2. CASE Finish(t)
  BY <1>0, <1>1, <1>2, Ends_Step
<1>3. CASE u \in Uuid /\ mnt[n] = 0 /\ Step(t, m)
  <2>1. /\ Updated(t, file.reg) \in FsState /\ Updated(t, file.reg)[n] = NoEntry
        /\ \A x \in Name \ {n} : Updated(t, file.reg)[x] = file.reg[x]
    <3>1. /\ TypeOK /\ task[t].op = "forget" /\ task[t].name \in Name /\ file.reg \in FsState
      BY <1>0, <1>1
    <3>2. \A x \in Name \ {n} : Updated(t, file.reg)[x] = file.reg[x]
      BY <3>1, UpdatedOther
    <3>3. Updated(t, file.reg) \in FsState
      BY <3>1, UpdatedFacts
    <3> QED
      BY <3>1, <3>2, <3>3, UpdatedEntry
  <2>2. /\ m \in Request /\ m.pc = "probe" /\ m.op = "forget" /\ m.name = n /\ m.want = u
        /\ m.snap = Updated(t, file.reg)
    BY <1>0, <1>1, <1>3, <2>1 DEF Request
  <2>3. Step(t, m)
    BY <1>3
  <2> HIDE DEF m
  <2>4. /\ Alone(t) /\ task'[t].pc = "probe" /\ task'[t].op = "forget" /\ task'[t].name = n
        /\ task'[t].want = u /\ task'[t].snap = Updated(t, file.reg)
    BY <1>0, <2>2, <2>3, StepFacts
  <2>5. Faithful(t)'
    <3>1. /\ FoundFs(t)' /\ MountStands(t)' /\ Torn(t)' /\ WipesAll(t)' /\ ErasesGone(t)'
      BY <2>4 DEF FoundFs, MountStands, Recording, Torn, WipesAll, ErasesGone
    <3>2. SnapCurrent(t)' /\ SnapAgrees(t)'
      BY <1>0, <1>3, <2>1, <2>4 DEF SnapCurrent, SnapAgrees
    <3>3. ProbesEntry(t)'
      BY <1>0, <2>1, <2>4 DEF ProbesEntry
    <3> QED
      BY <3>1, <3>2, <3>3 DEF Faithful
  <2>6. \A x \in Name : ~ Recorder(t, x)
    BY <1>0 DEF Recorder
  <2> QED
    BY <1>0, <2>4, <2>5, <2>6, RInv_File
<1> QED
  BY <1>0, <1>2, <1>3

\* ... and goes on when its filesystem is not to be seen.
LEMMA RInv_ForgetProbe ==
  ASSUME RInv, IInv', NEW t \in Task, ForgetProbe(t)
  PROVE  RInv'
<1> DEFINE n == task[t].name
<1>0. /\ TypeOK /\ task[t].op = "forget" /\ task[t].pc = "probe"
      /\ UNCHANGED <<sb, member, present, mnt, file, blame>>
      /\ \/ Finish(t)
         \/ ~ Visible(task[t].want) /\ Goto(t, "trunc")
  BY DEF RInv, IInv, ForgetProbe, At, kernel
<1>1. \A x \in Name : ~ Recorder(t, x)
  BY <1>0 DEF Recorder
<1>2. CASE Finish(t)
  <2>1. Alone(t) /\ task'[t].pc = "idle" /\ task'[t].op = "none"
    BY <1>0, <1>2, FinishFacts, IdleFacts DEF Over
  <2>2. Faithful(t)'
    BY <2>1 DEF Faithful, FoundFs, MountStands, SnapCurrent, SnapAgrees, Torn, WipesAll,
                ProbesEntry, ErasesGone, Holding, Recording
  <2> QED
    BY <1>0, <1>1, <2>1, <2>2, RInv_File
<1>3. CASE ~ Visible(task[t].want) /\ Goto(t, "trunc")
  <2>1. Kept(t, "trunc") /\ task'[t].snap = task[t].snap
    BY <1>0, <1>3, GotoSnap
  <2>2. /\ Alone(t) /\ task'[t].pc = "trunc" /\ task'[t].op = "forget" /\ task'[t].name = n
        /\ task'[t].snap = task[t].snap
    BY <1>0, <2>1 DEF Kept, Moved
  <2>3. ASSUME blame' = {} PROVE Faithful(t)'
    <3>0. Faithful(t) /\ blame = {}
      BY <1>0, <2>3 DEF RInv
    <3>1. /\ FoundFs(t)' /\ MountStands(t)' /\ Torn(t)' /\ WipesAll(t)' /\ ProbesEntry(t)'
      BY <2>2 DEF FoundFs, MountStands, Recording, Torn, WipesAll, ProbesEntry
    <3>2. SnapCurrent(t)' /\ SnapAgrees(t)'
      <4>1. Holding(t)
        BY <1>0 DEF Holding
      <4>2. SnapCurrent(t)'
        BY <1>0, <2>2, <3>0, <4>1 DEF Faithful, SnapCurrent
      <4>3. \A o \in Task \ {t} : Recorder(o, n)' <=> Recorder(o, n)
        BY <2>2 DEF Alone, Recorder
      <4>4. SnapAgrees(t)'
        BY <1>0, <2>2, <3>0, <4>1, <4>3 DEF Faithful, SnapAgrees, MountedEntry
      <4> QED
        BY <4>2, <4>4
    <3>3. ErasesGone(t)'
      <4>1. file.reg[n].uuid = task[t].want
        BY <1>0, <3>0 DEF Faithful, ProbesEntry
      <4>2. Covered(task[t].want, {})
        BY <1>3 DEF Visible, Covered
      <4>3. Covered(file.reg[n].uuid, {})
        BY <4>1, <4>2
      <4>4. Covered(file.reg[n].uuid, {})'
        BY <1>0, <2>2, <4>3 DEF Covered, Mounted
      <4>5. Covered(file.reg[task[t].name].uuid, {})'
        BY <2>2, <4>4
      <4> QED
        BY <2>2, <4>5 DEF ErasesGone
    <3> QED
      BY <3>1, <3>2, <3>3 DEF Faithful
  <2> QED
    BY <1>0, <1>1, <2>2, <2>3, RInv_File
<1> QED
  BY <1>0, <1>2, <1>3

\* Truncating the file changes nothing that it is read for.
LEMMA RInv_Truncate ==
  ASSUME RInv, IInv', NEW t \in Task, Truncate(t)
  PROVE  RInv'
<1> DEFINE n == task[t].name
<1>0. /\ TypeOK /\ task[t].pc = "trunc" /\ Goto(t, "write")
      /\ UNCHANGED <<sb, member, present, mnt, blame>>
      /\ file'.reg = file.reg /\ file'.ok = FALSE
  BY DEF RInv, IInv, TypeOK, Truncate, kernel
<1>1. Kept(t, "write") /\ task'[t].snap = task[t].snap
  BY <1>0, GotoSnap
<1>2. /\ Alone(t) /\ task'[t].pc = "write" /\ task'[t].op = task[t].op /\ task'[t].name = n
      /\ task'[t].snap = task[t].snap
  BY <1>1 DEF Kept, Moved
<1>3. \A x \in Name : Recorder(t, x) => Recorder(t, x)'
  BY <1>2 DEF Recorder
<1>4. ASSUME blame' = {} PROVE Faithful(t)'
  <2>0. Faithful(t) /\ Holding(t)
    BY <1>0, <1>4 DEF RInv, Holding
  <2>1. /\ FoundFs(t)' /\ MountStands(t)' /\ Torn(t)' /\ WipesAll(t)' /\ ProbesEntry(t)'
    BY <1>0, <1>2 DEF FoundFs, MountStands, Recording, Torn, WipesAll, ProbesEntry
  <2>2. SnapCurrent(t)'
    BY <1>0, <1>2, <2>0 DEF Faithful, SnapCurrent
  <2>3. SnapAgrees(t)'
    <3>1. \A o \in Task \ {t} : Recorder(o, n)' <=> Recorder(o, n)
      BY <1>2 DEF Alone, Recorder
    <3> QED
      BY <1>0, <1>2, <2>0, <3>1 DEF Faithful, SnapAgrees, MountedEntry
  <2>4. ErasesGone(t)'
    <3> SUFFICES ASSUME task[t].snap[n] = NoEntry
                 PROVE  /\ task[t].op \in {"destroy", "forget"}
                        /\ file.reg[n].uuid \in Uuid => Covered(file.reg[n].uuid, {})'
      BY <1>0, <1>2 DEF ErasesGone
    <3>1. /\ task[t].op \in {"destroy", "forget"}
          /\ file.reg[n].uuid \in Uuid => Covered(file.reg[n].uuid, {})
      BY <1>0, <2>0 DEF Faithful, ErasesGone
    <3>2. Covered(file.reg[n].uuid, {}) => Covered(file.reg[n].uuid, {})'
      BY <1>0, <1>2 DEF Covered, Mounted
    <3> QED
      BY <3>1, <3>2
  <2> QED
    BY <2>1, <2>2, <2>3, <2>4 DEF Faithful
<1> QED
  BY <1>0, <1>2, <1>3, <1>4, RInv_File

\* What is written is what was read, with the entry of this request; or it fails.
LEMMA RInv_Write ==
  ASSUME RInv, IInv', NEW t \in Task, WriteState(t) \/ WriteFails(t)
  PROVE  RInv'
<1> DEFINE n == task[t].name
<1>0. /\ TypeOK /\ task[t].pc = "write" /\ Goto(t, "inval") /\ blame \subseteq blame'
      /\ UNCHANGED <<sb, member, present, mnt>>
      /\ blame' = {} =>
            /\ ~ Stale(t)
            /\ file.ok \/ file' = [ok |-> TRUE, reg |-> task[t].snap]
  BY DEF RInv, IInv, WriteState, WriteFails, Blame, kernel
<1>1. Grounded /\ Shrinks
  BY <1>0, Grounded_Still
<1>2. Alone(t) /\ task'[t].pc = "inval"
  BY <1>0, GotoFacts DEF Kept, Moved
<1>3. ASSUME blame' = {}
      PROVE  Considerate(t) /\ Agreed' /\ Faithful(t)' /\ ~ Recording(t)'
  <2>0. blame = {} /\ Faithful(t) /\ Holding(t) /\ Agreed
    BY <1>0, <1>3 DEF RInv, Holding
  <2>1. \A o \in Task \ {t} : ~ Holding(o)
    BY <1>0, <1>3 DEF Stale, Holding
  <2>2. file'.reg = task[t].snap
    BY <1>0, <1>3, <2>0 DEF Faithful, Torn
  <2>3. Considerate(t)
    BY <1>0, <2>1 DEF Considerate
  <2>4. Agreed'
    <3> SUFFICES ASSUME NEW x \in Name, mnt[x] # 0
                 PROVE  \/ task[t].snap[x] = MountedEntry(mnt[x])
                        \/ \E o \in Task : Recorder(o, x)'
      BY <1>0, <2>2 DEF Agreed, MountedEntry
    <3>1. ASSUME NEW o \in Task \ {t}, Recorder(o, x) PROVE Recorder(o, x)'
      BY <1>2, <3>1, Recorder_Others
    <3>2. CASE x = n
      BY <2>0, <3>1, <3>2 DEF Faithful, SnapAgrees
    <3>3. CASE x # n
      <4>1. ~ Recorder(t, x)
        BY <3>3 DEF Recorder
      <4>2. task[t].snap[x] = file.reg[x]
        BY <2>0, <3>3 DEF Faithful, SnapCurrent
      <4> QED
        BY <2>0, <3>1, <4>1, <4>2 DEF Agreed
    <3> QED
      BY <3>2, <3>3
  <2>5. Faithful(t)' /\ ~ Recording(t)'
    BY <1>2 DEF Faithful, FoundFs, MountStands, SnapCurrent, SnapAgrees, Torn, WipesAll,
                ProbesEntry, ErasesGone, Holding, Recording
  <2> QED
    BY <2>3, <2>4, <2>5
<1> QED
  BY <1>0, <1>1, <1>2, <1>3, RInv_Compose

\* The cached list is dropped and the request ends.
LEMMA RInv_Invalidate ==
  ASSUME RInv, IInv', NEW t \in Task, Invalidate(t)
  PROVE  RInv'
<1>1. Finish(t) /\ UNCHANGED <<sb, member, present, mnt, file, blame>> /\ Bland(task[t])
  BY DEF Invalidate, kernel, Bland
<1> QED
  BY <1>1, Ends_Step

-----------------------------------------------------------------------------
(* Restarts, the world, and the theorems.                                    *)

\* A restart that interrupts no request but list leaves nothing to be recorded.
LEMMA RInv_Restart ==
  ASSUME RInv, IInv', EngineRestart \/ Reboot
  PROVE  RInv'
<1>0. /\ Down /\ file' = file /\ blame \subseteq blame'
      /\ \/ UNCHANGED <<sb, member, mnt>>
         \/ \A n \in Name : mnt'[n] = 0
  BY DEF EngineRestart, Reboot, Down, Blame
<1>1. Backed'
  BY <1>0 DEF RInv, Backed
<1>2. \A t \in Task : task'[t] = Idle
  BY <1>0 DEF Down
<1>3. ASSUME blame' = {} PROVE (Agreed /\ OneRecorder /\ \A t \in Task : Faithful(t))'
  <2>1. blame = {} /\ \A t \in Task : task[t] = Idle \/ task[t].op = "list"
    BY <1>0, <1>3 DEF Down, Blame
  <2>2. \A t \in Task, n \in Name : ~ Recorder(t, n)
    BY <2>1, IdleFacts DEF Recorder
  <2>3. Agreed'
    <3>1. \A n \in Name : mnt[n] # 0 => file.reg[n] = MountedEntry(mnt[n])
      BY <2>1, <2>2 DEF RInv, Agreed
    <3> QED
      BY <1>0, <3>1 DEF Agreed, MountedEntry
  <2>4. OneRecorder'
    BY <1>2, IdleFacts DEF OneRecorder, Recording
  <2>5. \A t \in Task : Faithful(t)'
    BY <1>2, IdleFacts DEF Faithful, FoundFs, MountStands, SnapCurrent, SnapAgrees, Torn,
          WipesAll, ProbesEntry, ErasesGone, Holding, Recording
  <2> QED
    BY <2>3, <2>4, <2>5
<1> QED
  BY <1>1, <1>3 DEF RInv

\* restore_mounts starts the mounts of the boot.
LEMMA RInv_Restore ==
  ASSUME RInv, IInv', NEW t \in Task, NEW n \in Name, RestoreNext(t, n)
  PROVE  RInv'
<1> DEFINE m == [Idle EXCEPT !.op = "mount", !.pc = "get", !.name = n, !.want = file.reg[n].uuid]
<1>0. /\ TypeOK /\ task[t] = Idle /\ UNCHANGED <<sb, member, present, mnt, file, blame>>
      /\ (UNCHANGED task \/ (file.reg[n].uuid # Legacy /\ Step(t, m)))
  BY DEF RInv, IInv, RestoreNext, kernel
<1>1. Bland(task[t])
  BY <1>0, IdleFacts DEF Bland
<1>2. Alone(t) /\ task'[t].pc \in {"idle", "get"}
  <2>1. CASE UNCHANGED task
    BY <1>0, <2>1, IdleFacts DEF Alone, TypeOK
  <2>2. CASE file.reg[n].uuid # Legacy /\ Step(t, m)
    <3>1. file.reg[n].uuid \in Uuid \cup {0}
      BY <1>0, <2>2 DEF TypeOK, FsState, Entry
    <3>2. m \in Request /\ m.pc = "get"
      BY <3>1, IdleFacts DEF Request, Idle
    <3> HIDE DEF m
    <3> QED
      BY <1>0, <2>2, <3>2, StepFacts
  <2> QED
    BY <1>0, <2>1, <2>2
<1> QED
  BY <1>0, <1>1, <1>2, Aside_Step

\* A disk that comes back while nothing is under way changes no mount.
LEMMA RInv_Replug ==
  ASSUME RInv, IInv', NEW d \in Dev, Replug(d)
  PROVE  RInv'
<1>0. UNCHANGED <<sb, member, mnt, file, task>> /\ blame \subseteq blame'
  BY DEF Replug, Blame
<1>1. Backed'
  BY <1>0 DEF RInv, Backed
<1>2. ASSUME blame' = {} PROVE Agreed' /\ OneRecorder' /\ \A t \in Task : Faithful(t)'
  <2>1. blame = {} /\ \A t \in Task : task'[t] = Idle
    BY <1>0, <1>2 DEF Replug, Blame
  <2>2. Agreed'
    BY <1>0, <2>1 DEF RInv, Agreed, MountedEntry, Recorder
  <2>3. OneRecorder'
    BY <2>1, IdleFacts DEF OneRecorder, Recording
  <2>4. \A t \in Task : Faithful(t)'
    BY <2>1, IdleFacts DEF Faithful, FoundFs, MountStands, SnapCurrent, SnapAgrees, Torn,
          WipesAll, ProbesEntry, ErasesGone, Holding, Recording
  <2> QED
    BY <2>2, <2>3, <2>4
<1> QED
  BY <1>1, <1>2 DEF RInv

\* A disk that goes takes nothing from what is known of the devices.
LEMMA RInv_World ==
  ASSUME RInv, IInv', CacheExpires \/ RestoreDone \/ \E d \in Dev : Unplug(d)
  PROVE  RInv'
<1>0. TypeOK /\ UNCHANGED <<sb, member, mnt, file, task, blame>> /\ present' \subseteq present
  BY DEF RInv, IInv, CacheExpires, RestoreDone, Unplug, kernel
<1>1. Grounded /\ Shrinks /\ Backed'
  BY <1>0 DEF Grounded, Shrinks, RInv, Backed
<1>2. ASSUME NEW u \in Uuid, NEW S, Covered(u, S) PROVE Covered(u, S)'
  BY <1>0, <1>1, <1>2, Covered_Step
<1>3. ASSUME NEW o \in Task, Faithful(o) PROVE Faithful(o)'
  <2>0. task[o].list \subseteq Filesystem
    BY <1>0, TaskFacts
  <2>1. /\ FoundFs(o)' /\ MountStands(o)' /\ SnapCurrent(o)' /\ Torn(o)' /\ ProbesEntry(o)'
    BY <1>0, <1>3 DEF Faithful, FoundFs, MountStands, Recording, SnapCurrent, Holding, Torn,
                      ProbesEntry
  <2>2. SnapAgrees(o)'
    BY <1>0, <1>3 DEF Faithful, SnapAgrees, Holding, MountedEntry, Recorder
  <2>3. WipesAll(o)'
    <3> SUFFICES ASSUME task[o].op = "destroy"
                 PROVE  /\ task[o].pc = "fill" => \A f \in task[o].list : Covered(f.uuid, f.devs)'
                        /\ task[o].pc \in {"verify", "umount", "wipe"} =>
                              Covered(task[o].fs.uuid, task[o].todo)'
                        /\ task[o].pc = "load" => Covered(task[o].fs.uuid, {})'
      BY <1>0 DEF WipesAll
    <3>1. ASSUME task[o].pc = "fill", NEW f \in task[o].list PROVE Covered(f.uuid, f.devs)'
      <4>1. f.uuid \in Uuid /\ Covered(f.uuid, f.devs)
        BY <1>3, <2>0, <3>1 DEF Faithful, WipesAll, Filesystem
      <4> QED
        BY <1>2, <4>1
    <3>2. ASSUME task[o].pc \in {"verify", "umount", "wipe"}
          PROVE  Covered(task[o].fs.uuid, task[o].todo)'
      <4>1. task[o].fs.uuid \in Uuid /\ Covered(task[o].fs.uuid, task[o].todo)
        BY <1>3, <3>2 DEF Faithful, WipesAll, FoundFs
      <4> QED
        BY <1>0, <1>2, <4>1
    <3>3. ASSUME task[o].pc = "load" PROVE Covered(task[o].fs.uuid, {})'
      <4>1. task[o].fs.uuid \in Uuid /\ Covered(task[o].fs.uuid, {})
        BY <1>3, <3>3 DEF Faithful, WipesAll, FoundFs
      <4> QED
        BY <1>0, <1>2, <4>1
    <3> QED
      BY <3>1, <3>2, <3>3
  <2>4. ErasesGone(o)'
    <3> DEFINE u == file.reg[task[o].name].uuid
    <3> SUFFICES ASSUME task[o].pc \in {"trunc", "write"},
                        task[o].snap[task[o].name] = NoEntry
                 PROVE  /\ task[o].op \in {"destroy", "forget"}
                        /\ u \in Uuid => Covered(u, {})'
      BY <1>0 DEF ErasesGone
    <3>1. task[o].op \in {"destroy", "forget"} /\ (u \in Uuid => Covered(u, {}))
      BY <1>3 DEF Faithful, ErasesGone
    <3> QED
      BY <1>0, <1>2, <3>1
  <2> QED
    BY <2>1, <2>2, <2>3, <2>4 DEF Faithful
<1>4. Agreed => Agreed'
  BY <1>0 DEF Agreed, MountedEntry, Recorder
<1>5. OneRecorder => OneRecorder'
  BY <1>0 DEF OneRecorder, Recording
<1> QED
  BY <1>0, <1>1, <1>3, <1>4, <1>5 DEF RInv

\* At the first start nothing is under way, and what is mounted is registered.
LEMMA Init_RInv ==
  ASSUME Init
  PROVE  RInv
<1>1. PICK up \in BOOLEAN, d \in Dev, n \in UserName, old \in SUBSET UserName :
          /\ n \notin old
          /\ sb = [x \in Dev |-> IF x = d THEN 1 ELSE 0]
          /\ member = {d}
          /\ mnt = [x \in Name |-> IF x = n /\ up THEN 1 ELSE 0]
          /\ dirs = {n} \cup old
          /\ file = [ok |-> TRUE,
                     reg |-> [x \in Name |->
                                 CASE x = n -> [uuid |-> 1, up |-> up]
                                   [] x \in old -> [uuid |-> Legacy, up |-> TRUE]
                                   [] OTHER -> NoEntry]]
  BY Zenon DEF Init
<1>2. \A x \in Name : mnt[x] # 0 => x = n /\ up = TRUE /\ mnt[x] = 1
  BY <1>1
<1>3. n \in Name /\ file.reg[n] = [uuid |-> 1, up |-> up]
  <2> DEFINE e(x) == CASE x = n -> [uuid |-> 1, up |-> up]
                       [] x \in old -> [uuid |-> Legacy, up |-> TRUE]
                       [] OTHER -> NoEntry
  <2>1. e(n) = [uuid |-> 1, up |-> up]
    BY <1>1
  <2>2. file = [ok |-> TRUE, reg |-> [x \in Name |-> e(x)]]
    BY <1>1
  <2> HIDE DEF e
  <2> QED
    BY <2>1, <2>2 DEF Name
<1>4. Backed
  BY <1>1, <1>2 DEF Backed
<1>5. Agreed
  BY <1>2, <1>3 DEF Agreed, MountedEntry
<1>6. \A t \in Task : task[t] = Idle
  BY DEF Init
<1>7. OneRecorder
  BY <1>6, IdleFacts DEF OneRecorder, Recording
<1>8. \A t \in Task : Faithful(t)
  BY <1>6, IdleFacts DEF Faithful, FoundFs, MountStands, SnapCurrent, SnapAgrees, Torn,
        WipesAll, ProbesEntry, ErasesGone, Holding, Recording
<1> QED
  BY <1>4, <1>5, <1>7, <1>8, Init_IInv DEF RInv

\* Every step keeps the invariant.
LEMMA RInv_Step ==
  ASSUME RInv, [Next]_vars
  PROVE  RInv'
<1>0. IInv'
  BY IInv_Step DEF RInv
<1>1. CASE UNCHANGED vars
  <2>1. UNCHANGED <<sb, member, present, mnt, file, task, blame>>
    BY <1>1 DEF vars, kernel
  <2> QED
    BY <1>0, <2>1 DEF RInv, Backed, Agreed, OneRecorder, Faithful, FoundFs, MountStands,
          SnapCurrent, SnapAgrees, Torn, WipesAll, ProbesEntry, ErasesGone, Covered, Mounted,
          Holding, Recording, Recorder, MountedEntry
<1>2. ASSUME NEW t \in Task, Begin(t) PROVE RInv'
  <2>1. UserName \subseteq Name
    BY DEF Name
  <2>2. \E op \in Mutators \cup Others, name \in Name \cup {NoName}, dev \in Dev \cup {NoName} :
           Start(t, op, name, dev)
    BY <1>2, <2>1 DEF Begin
  <2> QED
    BY <1>0, <2>2, RInv_Start
<1>3. ASSUME NEW t \in Task, Continue(t) PROVE RInv'
  BY <1>0, <1>3, RInv_Start, RInv_Get, RInv_Create, RInv_MountVerify, RInv_MountCommand,
     RInv_MountCheck, RInv_Unmount, RInv_Wipe, RInv_AddProbe, RInv_Device, RInv_LoadState, RInv_ForgetLoad,
     RInv_ForgetProbe, RInv_Truncate, RInv_Write, RInv_Invalidate DEF Continue
<1> QED
  BY <1>0, <1>1, <1>2, <1>3, RInv_Restore, RInv_Restart, RInv_World, RInv_Replug DEF Next, Environment

\* What requests rely on holds in every state in which nothing is to blame, for
\* any number of requests, names and devices.
THEOREM Reliance == Spec => []RInv
  BY Init_RInv, RInv_Step, PTL DEF Spec

\* The registry agrees with the mount table whenever no request is under way and
\* nothing is to blame (save_fs_mounted_with_opts, save_fs_unmounted,
\* restore_mounts).
THEOREM FlagsAreHonest == Spec => []FlagHonest
<1>1. ASSUME RInv PROVE FlagHonest
  <2> SUFFICES ASSUME Quiet, blame = {}, NEW n \in Name, mnt[n] # 0
               PROVE  file.reg[n] = [uuid |-> mnt[n], up |-> TRUE]
    BY DEF FlagHonest
  <2>1. \A o \in Task : ~ Recorder(o, n)
    BY IdleFacts DEF Quiet, Recorder
  <2> QED
    BY <1>1, <2>1 DEF RInv, Agreed, MountedEntry
<1> QED
  BY <1>1, Reliance, PTL

\* What a step may do to the registry: an entry goes only when its filesystem has
\* gone, or something is to blame.
LEMMA EntryKept_Step ==
  ASSUME RInv, [Next]_vars, NEW n \in Name, file.reg[n].uuid \in Uuid, file'.reg[n] = NoEntry,
         \/ Mounted(file.reg[n].uuid)
         \/ \E d \in present \cap member : sb[d] = file.reg[n].uuid
  PROVE  blame' # {}
<1> DEFINE u == file.reg[n].uuid
<1>1. file'.reg # file.reg
  BY DEF NoEntry, Uuid
<1>2. PICK t \in Task : WriteState(t)
  <2>1. file' # file /\ TypeOK
    BY <1>1 DEF RInv, IInv
  <2>2. ~ UNCHANGED vars
    BY <2>1 DEF vars
  <2>3. ASSUME NEW t \in Task, Begin(t) PROVE FALSE
    BY <2>1, <2>3, ZenonT(60) DEF Begin, Start
  <2>4. ASSUME NEW t \in Task, Continue(t) PROVE WriteState(t)
    <3>1. ~ Truncate(t)
      BY <1>1, <2>1 DEF Truncate, TypeOK
    <3> QED
      BY <2>1, <2>4, <3>1 DEF Continue, AcquireMutex, GetLegacy, GetCached, GetFresh, GetFails, Fill,
            CreatePlan, revalidate_create_targets, CreateFormat, MountVerify, MountCommand,
            MountCheck, UnmountVerify, Umount, DestroyWipe, AddProbe, DeviceCommand, LoadState,
            ForgetLoad,
            ForgetProbe, WriteFails, Invalidate
  <2>5. ~ Environment /\ ~ RestoreDone /\ ~ \E t \in Task, x \in Name : RestoreNext(t, x)
    BY <2>1 DEF Environment, RestoreDone, RestoreNext, CacheExpires, EngineRestart, Reboot, Down,
          Unplug, Replug
  <2> QED
    BY <2>2, <2>3, <2>4, <2>5 DEF Next
<1>3. SUFFICES ASSUME blame' = {} PROVE FALSE
  OBVIOUS
<1>4. blame = {} /\ Faithful(t) /\ task[t].pc = "write" /\ TypeOK
  BY <1>2, <1>3 DEF WriteState, Blame, RInv, IInv
<1>5. file'.reg = task[t].snap
  BY <1>1, <1>2, <1>4 DEF WriteState, TypeOK
<1>6. n = task[t].name
  BY <1>1, <1>4, <1>5 DEF Faithful, SnapCurrent, Holding, NoEntry, Uuid
<1>7. Covered(u, {})
  BY <1>4, <1>5, <1>6 DEF Faithful, ErasesGone
<1> QED
  BY <1>7 DEF Covered

\* A filesystem with a member in place or a mount keeps its entry as long as
\* nothing is to blame (destroy forgets last, forget_unavailable probes first).
THEOREM EntriesAreKept == Spec => EntryKept
<1>1. RInv /\ [Next]_vars =>
         [\A n \in Name :
             LET u == file.reg[n].uuid
             IN /\ u \in Uuid /\ file'.reg[n] = NoEntry
                /\ Mounted(u) \/ \E d \in present \cap member : sb[d] = u
                => blame' # {}]_vars
  BY EntryKept_Step
<1> QED
  BY <1>1, Reliance, PTL DEF Spec, EntryKept

=============================================================================
