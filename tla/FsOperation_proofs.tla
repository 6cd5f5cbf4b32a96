-------------------------- MODULE FsOperation_proofs --------------------------
(***************************************************************************)
(* Proofs about FsOperation, for any handlers, pollers, cancels, faults    *)
(* and bounds: the types, the uniqueness of the reservation, that a status *)
(* poll records only a dead run as interrupted, and that a run has one     *)
(* result.                                                                 *)
(***************************************************************************)
EXTENDS FsOperation, TLAPS

\* A status that shows a run as running names it.
Named(s) == s.running => s.run # 0

\* What the file and every snapshot on its way to it hold.
StatusInv ==
    /\ Named(mem) /\ Named(disk)
    /\ \A h \in Handlers : Named(task[h].snapshot)
    /\ \A p \in Pollers : Named(poll[p].snapshot)

\* A task has a run exactly while it has the reservation.
RunInv == \A h \in Handlers : Holds(h) <=> task[h].run # 0

\* Once a poll has seen no child, a child can only come from a task.
PollInv ==
    \A p \in Pollers : poll[p].pc = "dead" =>
       \A r \in alive : \E h \in Handlers : TaskAt(h, "child") /\ task[h].run = r

IInv == TypeOK /\ OneOwner /\ StatusInv /\ RunInv /\ PollInv

-----------------------------------------------------------------------------
(* Initial states and types.                                                 *)

\* Before the first start there is no status, no task and no reservation.
LEMMA InitIInv == Init => IInv
<1> SUFFICES ASSUME Init PROVE IInv
    OBVIOUS
<1> USE FsOperationAssumption DEF FsOperationAssumption
<1>1. NeverRun \in Status /\ NoTask \in Task /\ NoPoll \in Poll
  BY DEF NeverRun, Status, NoResult, NoTask, Task, TaskPcs, NoPoll, Poll
<1>2. TypeOK
  <2>1. runs \in 0 .. MaxRuns /\ crashes \in 0 .. MaxCrashes /\ alive \subseteq 1 .. MaxRuns
    BY DEF Init
  <2> QED
    BY <1>1, <2>1, Zenon DEF Init, TypeOK
<1>3. OneOwner /\ RunInv
  BY DEF Init, OneOwner, RunInv, Holds, NoTask
<1>4. StatusInv
  BY DEF Init, StatusInv, Named, NoTask, NoPoll, NeverRun
<1>5. PollInv
  BY DEF Init, PollInv, NoPoll
<1> QED
  BY <1>2, <1>3, <1>4, <1>5 DEF IInv

\* The values that stand for nothing are of their types.
LEMMA Constructors ==
    /\ NeverRun \in Status
    /\ NoTask \in Task
    /\ NoPoll \in Poll
    /\ Named(NeverRun)
  BY FsOperationAssumption
     DEF FsOperationAssumption, NeverRun, Status, NoResult, NoTask, Task, TaskPcs,
         NoPoll, Poll, Named

\* A write leaves a status, and one that names its run.
LEMMA WrittenStatus ==
    ASSUME TypeOK, NEW s \in Status, NEW d \in Written(s)
    PROVE  /\ d \in Status
           /\ Named(s) /\ Named(disk) => Named(d)
  BY Constructors DEF Written, TypeOK

-----------------------------------------------------------------------------
(* What the parts of the invariant need of a step of a task.                 *)

\* The task goes on: it keeps its run and the reservation, and its child is the
\* only one that may appear and, when it leaves it, is gone.
LEMMA TaskGoesOn ==
    ASSUME IInv, NEW h \in Handlers, Holds(h),
           NEW t \in Task, task' = [task EXCEPT ![h] = t],
           t.pc \notin {"idle", "checked"}, t.run = task[h].run,
           Named(t.snapshot), Named(mem'), Named(disk'),
           UNCHANGED <<owned, poll>>,
           \A r \in alive' : r \in alive \/ (t.pc = "child" /\ r = t.run),
           task[h].pc = "child" /\ t.pc # "child" => t.run \notin alive'
    PROVE  OneOwner' /\ StatusInv' /\ RunInv' /\ PollInv'
<1>1. /\ task'[h] = t
      /\ \A g \in Handlers \ {h} : task'[g] = task[g]
  BY DEF IInv, TypeOK
<1>2. \A g \in Handlers : Holds(g)' <=> Holds(g)
  BY <1>1 DEF Holds
<1>3. OneOwner'
  BY <1>2 DEF IInv, OneOwner
<1>4. StatusInv'
  <2>1. \A g \in Handlers : Named(task'[g].snapshot)
    BY <1>1 DEF IInv, StatusInv
  <2>2. \A p \in Pollers : Named(poll'[p].snapshot)
    BY DEF IInv, StatusInv
  <2> QED
    BY <2>1, <2>2 DEF StatusInv, Named
<1>5. RunInv'
  BY <1>1, <1>2 DEF IInv, RunInv
<1>6. PollInv'
  <2> SUFFICES ASSUME NEW p \in Pollers, poll[p].pc = "dead", NEW r \in alive'
               PROVE  \E g \in Handlers : task'[g].pc = "child" /\ task'[g].run = r
    BY DEF PollInv, TaskAt
  <2>1. CASE t.pc = "child" /\ r = t.run
    BY <1>1, <2>1
  <2>2. CASE r \in alive
    <3>1. PICK g \in Handlers : task[g].pc = "child" /\ task[g].run = r
      BY <2>2 DEF IInv, PollInv, TaskAt
    <3>2. CASE g # h
      BY <1>1, <3>1, <3>2
    <3>3. CASE g = h
      BY <1>1, <3>1, <3>3
    <3> QED
      BY <3>2, <3>3
  <2> QED
    BY <2>1, <2>2
<1> QED
  BY <1>3, <1>4, <1>5, <1>6

\* The task ends and gives the reservation back.
LEMMA TaskEnds ==
    ASSUME IInv, NEW h \in Handlers, Holds(h), task[h].pc # "child",
           task' = [task EXCEPT ![h] = NoTask], owned' = FALSE,
           Named(mem'), Named(disk'), UNCHANGED <<alive, poll>>
    PROVE  OneOwner' /\ StatusInv' /\ RunInv' /\ PollInv'
<1>1. /\ task'[h] = NoTask
      /\ \A g \in Handlers \ {h} : task'[g] = task[g]
  BY DEF IInv, TypeOK
<1>2. /\ \A g \in Handlers \ {h} : ~Holds(g)
      /\ \A g \in Handlers : ~Holds(g)'
  BY <1>1 DEF IInv, OneOwner, Holds, NoTask
<1>3. OneOwner'
  BY <1>2 DEF OneOwner
<1>4. StatusInv'
  <2>1. \A g \in Handlers : Named(task'[g].snapshot)
    BY <1>1, Constructors DEF IInv, StatusInv, NoTask
  <2>2. \A p \in Pollers : Named(poll'[p].snapshot)
    BY DEF IInv, StatusInv
  <2> QED
    BY <2>1, <2>2 DEF StatusInv, Named
<1>5. RunInv'
  BY <1>1, <1>2 DEF IInv, RunInv, NoTask
<1>6. PollInv'
  BY <1>1 DEF IInv, PollInv, TaskAt, NoTask
<1> QED
  BY <1>3, <1>4, <1>5, <1>6

-----------------------------------------------------------------------------
(* The steps of start calls and their tasks.                                 *)

\* A start call that has passed its first look holds nothing yet.
LEMMA StartCheckIInv ==
    ASSUME IInv, NEW h \in Handlers, StartCheck(h) PROVE IInv'
<1> DEFINE t == [task[h] EXCEPT !.pc = "checked"]
<1>1. t \in Task /\ t.run = task[h].run /\ t.snapshot = task[h].snapshot /\ t.pc = "checked"
  BY DEF IInv, TypeOK, Task, TaskPcs
<1>2. task' = [task EXCEPT ![h] = t]
  BY DEF StartCheck, Goto
<1> HIDE DEF t
<1>3. task'[h] = t /\ \A g \in Handlers \ {h} : task'[g] = task[g]
  BY <1>2 DEF IInv, TypeOK
<1>4. TypeOK'
  BY <1>1, <1>2 DEF IInv, TypeOK, StartCheck
<1>5. task[h].pc = "idle"
  BY DEF StartCheck, TaskAt
<1>6. \A g \in Handlers : /\ Holds(g)' <=> Holds(g)
                          /\ task'[g].run = task[g].run
                          /\ task'[g].snapshot = task[g].snapshot
                          /\ TaskAt(g, "child")' <=> TaskAt(g, "child")
  BY <1>1, <1>3, <1>5 DEF Holds, TaskAt
<1>7. OneOwner' /\ RunInv'
  BY <1>6 DEF IInv, OneOwner, RunInv, StartCheck
<1>8. StatusInv'
  BY <1>6 DEF IInv, StatusInv, Named, StartCheck
<1>9. PollInv'
  BY <1>6 DEF IInv, PollInv, StartCheck
<1> QED
  BY <1>4, <1>7, <1>8, <1>9 DEF IInv

\* The reservation goes to one call, and its run has a number.
LEMMA ReserveIInv ==
    ASSUME IInv, NEW h \in Handlers, Reserve(h) PROVE IInv'
<1> USE FsOperationAssumption DEF FsOperationAssumption
<1>1. PICK now \in 1 .. MaxClock :
         task' = [task EXCEPT ![h] = [NoTask EXCEPT !.pc = "reserved",
                                                    !.run = runs + 1, !.now = now]]
  BY DEF Reserve
<1> DEFINE t == [NoTask EXCEPT !.pc = "reserved", !.run = runs + 1, !.now = now]
<1>2. /\ t.pc = "reserved" /\ t.run = runs + 1 /\ t.snapshot = NeverRun
      /\ t \in Task
  <2>1. runs \in Nat /\ runs + 1 \in 0 .. MaxRuns /\ now \in 0 .. MaxClock
    BY DEF IInv, TypeOK, Reserve
  <2> QED
    BY <2>1, Constructors DEF NoTask, Task, TaskPcs
<1>3. task' = [task EXCEPT ![h] = t]
  BY <1>1
<1> HIDE DEF t
<1>4. task'[h] = t /\ \A g \in Handlers \ {h} : task'[g] = task[g]
  BY <1>3 DEF IInv, TypeOK
<1>5. TypeOK'
  <2>1. task' \in [Handlers -> Task]
    BY <1>2, <1>3 DEF IInv, TypeOK
  <2>2. runs' \in 0 .. MaxRuns 
    BY DEF IInv, TypeOK, Reserve
  <2> QED
    BY <2>1, <2>2 DEF IInv, TypeOK, Reserve
<1>6. ~owned /\ \A g \in Handlers : ~Holds(g)
  BY DEF IInv, OneOwner, Reserve
<1>7. OneOwner' /\ RunInv'
  <2>1. runs + 1 # 0
    BY DEF IInv, TypeOK
  <2> QED
    BY <2>1, <1>2, <1>4, <1>6 DEF IInv, OneOwner, RunInv, Holds, Reserve
<1>8. StatusInv'
  <2>1. \A g \in Handlers : Named(task'[g].snapshot)
    BY <1>2, <1>4, Constructors DEF IInv, StatusInv
  <2>2. \A p \in Pollers : Named(poll'[p].snapshot)
    BY DEF IInv, StatusInv, Reserve
  <2> QED
    BY <2>1, <2>2 DEF IInv, StatusInv, Named, Reserve
<1>9. PollInv'
  BY <1>4, <1>6 DEF IInv, PollInv, Reserve, Holds, TaskAt
<1> QED
  BY <1>5, <1>7, <1>8, <1>9 DEF IInv

\* A call that is refused leaves nothing behind.
LEMMA StartRefusedIInv ==
    ASSUME IInv, NEW h \in Handlers, StartRefused(h) PROVE IInv'
<1>1. task' = [task EXCEPT ![h] = NoTask]
  BY DEF StartRefused
<1>2. task'[h] = NoTask /\ \A g \in Handlers \ {h} : task'[g] = task[g]
  BY <1>1 DEF IInv, TypeOK
<1>3. TypeOK'
  BY <1>1, Constructors DEF IInv, TypeOK, StartRefused
<1>4. task[h].pc = "checked" /\ task[h].run = 0
  BY DEF IInv, RunInv, Holds, StartRefused, TaskAt
<1>5. \A g \in Handlers : /\ Holds(g)' <=> Holds(g)
                          /\ task'[g].run = task[g].run
                          /\ TaskAt(g, "child")' <=> TaskAt(g, "child")
  BY <1>2, <1>4 DEF Holds, TaskAt, NoTask
<1>6. OneOwner' /\ RunInv'
  BY <1>5 DEF IInv, OneOwner, RunInv, StartRefused
<1>7. StatusInv'
  <2>1. \A g \in Handlers : Named(task'[g].snapshot)
    BY <1>2, Constructors DEF IInv, StatusInv, NoTask
  <2> QED
    BY <2>1 DEF IInv, StatusInv, Named, StartRefused
<1>8. PollInv'
  BY <1>5 DEF IInv, PollInv, StartRefused
<1> QED
  BY <1>3, <1>6, <1>7, <1>8 DEF IInv

\* The status shown from now on names the run.
LEMMA StampIInv ==
    ASSUME IInv, NEW h \in Handlers, Stamp(h) PROVE IInv'
<1> DEFINE t == [task[h] EXCEPT !.pc = "stamped"]
<1>1. /\ t \in Task /\ t.run = task[h].run /\ t.snapshot = task[h].snapshot
      /\ t.pc = "stamped"
  BY DEF IInv, TypeOK, Task, TaskPcs
<1>2. task' = [task EXCEPT ![h] = t]
  BY DEF Stamp, Goto
<1> HIDE DEF t
<1>3. task[h].pc = "reserved" /\ Holds(h) /\ task[h].run # 0
  BY DEF Stamp, TaskAt, Holds, IInv, RunInv
<1>4. mem' \in Status /\ Named(mem')
  <2>1. task[h].run \in 0 .. MaxRuns /\ task[h].now \in 0 .. MaxClock /\ mem \in Status
    BY DEF IInv, TypeOK, Task
  <2> QED
    BY <1>3, <2>1 DEF Stamp, Status, Named
<1>5. TypeOK'
  BY <1>1, <1>2, <1>4 DEF IInv, TypeOK, Stamp
<1>6. Named(t.snapshot) /\ Named(disk') /\ UNCHANGED <<owned, poll, alive>>
  BY <1>1 DEF IInv, StatusInv, Stamp
<1>7. OneOwner' /\ StatusInv' /\ RunInv' /\ PollInv'
  BY <1>1, <1>2, <1>3, <1>4, <1>6, TaskGoesOn
<1> QED
  BY <1>5, <1>7 DEF IInv

\* The snapshot for the file is a copy of what is in memory.
LEMMA TaskSnapshotIInv ==
    ASSUME IInv, NEW h \in Handlers, TaskSnapshot(h) PROVE IInv'
<1> DEFINE pc == IF TaskAt(h, "stamped") THEN "saving" ELSE "finishing"
           t == [task[h] EXCEPT !.pc = pc, !.snapshot = mem]
<1>1. /\ t \in Task /\ t.run = task[h].run /\ t.snapshot = mem
      /\ t.pc \in {"saving", "finishing"}
  BY DEF IInv, TypeOK, Task, TaskPcs
<1>2. task' = [task EXCEPT ![h] = t]
  BY DEF TaskSnapshot
<1> HIDE DEF t
<1>3. task[h].pc \in {"stamped", "recorded"} /\ Holds(h)
  BY DEF TaskSnapshot, Holds
<1>4. TypeOK'
  BY <1>1, <1>2 DEF IInv, TypeOK, TaskSnapshot
<1>5. /\ Named(t.snapshot) /\ Named(mem') /\ Named(disk')
      /\ UNCHANGED <<owned, poll, alive>>
  BY <1>1 DEF IInv, StatusInv, TaskSnapshot
<1>6. OneOwner' /\ StatusInv' /\ RunInv' /\ PollInv'
  BY <1>1, <1>2, <1>3, <1>5, TaskGoesOn
<1> QED
  BY <1>4, <1>6 DEF IInv

\* A child appears together with the task that waits for it.
LEMMA SpawnIInv ==
    ASSUME IInv, NEW h \in Handlers, Spawn(h) PROVE IInv'
<1>1. /\ task[h] \in Task /\ task[h].snapshot \in Status /\ task[h].run \in 0 .. MaxRuns
      /\ Named(task[h].snapshot) /\ Named(disk)
  BY DEF IInv, TypeOK, StatusInv, Task
<1>2. task[h].pc = "saving" /\ Holds(h) /\ task[h].run # 0
  BY DEF Spawn, TaskAt, Holds, IInv, RunInv
<1>3. disk' \in Status /\ Named(disk') /\ Named(mem')
  <2>1. disk' \in Written(task[h].snapshot) /\ mem' = mem /\ TypeOK
    BY DEF Spawn, IInv
  <2> QED
    BY <1>1, <2>1, WrittenStatus DEF IInv, StatusInv
<1>4. CASE /\ alive' = alive \cup {task[h].run}
           /\ task' = [task EXCEPT ![h] = [NoTask EXCEPT !.pc = "child",
                                                         !.run = task[h].run]]
  <2> DEFINE t == [NoTask EXCEPT !.pc = "child", !.run = task[h].run]
  <2>1. t \in Task /\ t.run = task[h].run /\ t.snapshot = NeverRun /\ t.pc = "child"
    BY <1>1, Constructors DEF NoTask, Task, TaskPcs
  <2>2. task' = [task EXCEPT ![h] = t]
    BY <1>4
  <2> HIDE DEF t
  <2>3. \A r \in alive' : r \in alive \/ (t.pc = "child" /\ r = t.run)
    BY <1>4, <2>1
  <2>4. task[h].run \in 1 .. MaxRuns
    BY <1>1, <1>2, FsOperationAssumption DEF FsOperationAssumption
  <2>5. TypeOK'
    BY <1>3, <1>4, <2>1, <2>2, <2>4 DEF IInv, TypeOK, Spawn
  <2>6. OneOwner' /\ StatusInv' /\ RunInv' /\ PollInv'
    BY <1>2, <1>3, <2>1, <2>2, <2>3, Constructors, TaskGoesOn DEF Spawn
  <2> QED
    BY <2>5, <2>6 DEF IInv
<1>5. CASE /\ task' = [task EXCEPT ![h] = [NoTask EXCEPT !.pc = "exited",
                                             !.result = "failed", !.run = task[h].run]]
           /\ UNCHANGED alive
  <2> DEFINE t == [NoTask EXCEPT !.pc = "exited", !.result = "failed",
                                 !.run = task[h].run]
  <2>1. t \in Task /\ t.run = task[h].run /\ t.snapshot = NeverRun /\ t.pc = "exited"
    BY <1>1, Constructors DEF NoTask, Task, TaskPcs, Outcomes
  <2>2. task' = [task EXCEPT ![h] = t]
    BY <1>5
  <2> HIDE DEF t
  <2>3. TypeOK'
    BY <1>3, <1>5, <2>1, <2>2 DEF IInv, TypeOK, Spawn
  <2>4. OneOwner' /\ StatusInv' /\ RunInv' /\ PollInv'
    BY <1>2, <1>3, <1>5, <2>1, <2>2, Constructors, TaskGoesOn DEF Spawn
  <2> QED
    BY <2>3, <2>4 DEF IInv
<1> QED
  BY <1>4, <1>5 DEF Spawn

\* A child that was waited for is gone.
LEMMA ChildExitsIInv ==
    ASSUME IInv, NEW h \in Handlers, ChildExits(h) PROVE IInv'
<1>1. PICK r \in Outcomes :
         task' = [task EXCEPT ![h] = [task[h] EXCEPT !.pc = "exited", !.result = r]]
  BY DEF ChildExits
<1> DEFINE t == [task[h] EXCEPT !.pc = "exited", !.result = r]
<1>2. /\ t \in Task /\ t.run = task[h].run /\ t.snapshot = task[h].snapshot
      /\ t.pc = "exited"
  BY DEF IInv, TypeOK, Task, TaskPcs
<1>3. task' = [task EXCEPT ![h] = t]
  BY <1>1
<1> HIDE DEF t
<1>4. task[h].pc = "child" /\ Holds(h)
  BY DEF ChildExits, TaskAt, Holds
<1>5. TypeOK'
  BY <1>2, <1>3 DEF IInv, TypeOK, ChildExits
<1>6. /\ Named(t.snapshot) /\ Named(mem') /\ Named(disk')
      /\ UNCHANGED <<owned, poll>> /\ alive' = alive \ {task[h].run}
  BY <1>2 DEF IInv, StatusInv, ChildExits
<1>7. OneOwner' /\ StatusInv' /\ RunInv' /\ PollInv'
  BY <1>2, <1>3, <1>4, <1>6, TaskGoesOn
<1> QED
  BY <1>5, <1>7 DEF IInv

\* A pending cancel changes the result and not the run.
LEMMA DecideIInv ==
    ASSUME IInv, NEW h \in Handlers, Decide(h) PROVE IInv'
<1>1. PICK r \in {task[h].result, "cancelled"} :
         task' = [task EXCEPT ![h] = [task[h] EXCEPT !.pc = "decided", !.result = r]]
  <2>1. CASE kind = "scrub" /\ flag
    BY <2>1 DEF Decide
  <2>2. CASE ~(kind = "scrub" /\ flag)
    <3>1. [task[h] EXCEPT !.pc = "decided"]
            = [task[h] EXCEPT !.pc = "decided", !.result = task[h].result]
      BY DEF IInv, TypeOK, Task
    <3> QED
      BY <2>2, <3>1 DEF Decide, Goto
  <2> QED
    BY <2>1, <2>2
<1> DEFINE t == [task[h] EXCEPT !.pc = "decided", !.result = r]
<1>2. /\ t \in Task /\ t.run = task[h].run /\ t.snapshot = task[h].snapshot
      /\ t.pc = "decided"
  BY DEF IInv, TypeOK, Task, TaskPcs
<1>3. task' = [task EXCEPT ![h] = t]
  BY <1>1
<1> HIDE DEF t
<1>4. task[h].pc = "exited" /\ Holds(h)
  BY DEF Decide, TaskAt, Holds
<1>5. flag' \in BOOLEAN
  BY DEF Decide, IInv, TypeOK
<1>6. TypeOK'
  BY <1>2, <1>3, <1>5 DEF IInv, TypeOK, Decide
<1>7. /\ Named(t.snapshot) /\ Named(mem') /\ Named(disk')
      /\ UNCHANGED <<owned, poll, alive>>
  BY <1>2 DEF IInv, StatusInv, Decide
<1>8. OneOwner' /\ StatusInv' /\ RunInv' /\ PollInv'
  BY <1>2, <1>3, <1>4, <1>7, TaskGoesOn
<1> QED
  BY <1>6, <1>8 DEF IInv

\* A recorded run is not shown as running.
LEMMA RecordIInv ==
    ASSUME IInv, NEW h \in Handlers, Record(h) PROVE IInv'
<1> DEFINE t == [task[h] EXCEPT !.pc = "recorded"]
<1>1. /\ t \in Task /\ t.run = task[h].run /\ t.snapshot = task[h].snapshot
      /\ t.pc = "recorded"
  BY DEF IInv, TypeOK, Task, TaskPcs
<1>2. task' = [task EXCEPT ![h] = t]
  BY DEF Record, Goto
<1> HIDE DEF t
<1>3. task[h].pc = "decided" /\ Holds(h)
  BY DEF Record, TaskAt, Holds
<1>4. mem' \in Status /\ Named(mem')
  <2>1. task[h].run \in 0 .. MaxRuns /\ task[h].result \in Outcomes \cup {"none", "cancelled"}
    BY DEF IInv, TypeOK, Task
  <2> QED
    BY <2>1, Constructors DEF Record, Status, Named, NeverRun
<1>5. TypeOK'
  BY <1>1, <1>2, <1>4 DEF IInv, TypeOK, Record
<1>6. Named(t.snapshot) /\ Named(disk') /\ UNCHANGED <<owned, poll, alive>>
  BY <1>1 DEF IInv, StatusInv, Record
<1>7. OneOwner' /\ StatusInv' /\ RunInv' /\ PollInv'
  BY <1>1, <1>2, <1>3, <1>4, <1>6, TaskGoesOn
<1> QED
  BY <1>5, <1>7 DEF IInv

\* The task writes its snapshot and still has the reservation.
LEMMA FinishIInv ==
    ASSUME IInv, NEW h \in Handlers, Finish(h) PROVE IInv'
<1>1. /\ task[h].snapshot \in Status /\ task[h].run \in 0 .. MaxRuns
      /\ Named(task[h].snapshot) /\ Named(disk)
  BY DEF IInv, TypeOK, StatusInv, Task
<1> DEFINE t == [NoTask EXCEPT !.pc = "release", !.run = task[h].run]
<1>2. t \in Task /\ t.run = task[h].run /\ t.snapshot = NeverRun /\ t.pc = "release"
  BY <1>1, Constructors DEF NoTask, Task, TaskPcs
<1>3. task' = [task EXCEPT ![h] = t]
  BY DEF Finish
<1> HIDE DEF t
<1>4. task[h].pc = "finishing" /\ Holds(h)
  BY DEF Finish, TaskAt, Holds
<1>5. disk' \in Status /\ Named(disk') /\ Named(mem')
  <2>1. disk' \in Written(task[h].snapshot) /\ mem' = mem /\ TypeOK
    BY DEF Finish, IInv
  <2> QED
    BY <1>1, <2>1, WrittenStatus DEF IInv, StatusInv
<1>6. TypeOK'
  BY <1>2, <1>3, <1>5 DEF IInv, TypeOK, Finish
<1>7. Named(t.snapshot) /\ UNCHANGED <<owned, poll, alive>>
  BY <1>2, Constructors DEF Finish
<1>8. OneOwner' /\ StatusInv' /\ RunInv' /\ PollInv'
  BY <1>2, <1>3, <1>4, <1>5, <1>7, TaskGoesOn
<1> QED
  BY <1>6, <1>8 DEF IInv

\* The task ends and the reservation with it.
LEMMA ReleaseIInv ==
    ASSUME IInv, NEW h \in Handlers, Release(h) PROVE IInv'
<1>1. task[h].pc = "release" /\ Holds(h)
  BY DEF Release, TaskAt, Holds
<1>2. TypeOK'
  BY Constructors DEF IInv, TypeOK, Release
<1>3. /\ task' = [task EXCEPT ![h] = NoTask] /\ owned' = FALSE
      /\ Named(mem') /\ Named(disk') /\ UNCHANGED <<alive, poll>>
  BY DEF Release, IInv, StatusInv
<1>4. OneOwner' /\ StatusInv' /\ RunInv' /\ PollInv'
  BY <1>1, <1>3, TaskEnds
<1> QED
  BY <1>2, <1>4 DEF IInv

\* A dropped call releases its reservation; it has no child.
LEMMA DroppedIInv ==
    ASSUME IInv, NEW h \in Handlers, Dropped(h) PROVE IInv'
<1>1. /\ task[h].snapshot \in Status
      /\ Named(task[h].snapshot) /\ Named(disk) /\ Named(mem) /\ disk \in Status
  BY DEF IInv, TypeOK, StatusInv, Task
<1>2. task[h].pc # "child" /\ Holds(h)
  BY DEF Dropped, Holds
<1>3. disk' \in Status /\ Named(disk')
  <2>1. CASE disk' = disk
    BY <1>1, <2>1
  <2>2. CASE disk' \in Written(task[h].snapshot)
    BY <1>1, <2>2, WrittenStatus DEF IInv
  <2> QED
    BY <2>1, <2>2 DEF Dropped
<1>4. TypeOK'
  BY <1>3, Constructors DEF IInv, TypeOK, Dropped
<1>5. /\ task' = [task EXCEPT ![h] = NoTask] /\ owned' = FALSE
      /\ Named(mem') /\ UNCHANGED <<alive, poll>>
  BY <1>1 DEF Dropped
<1>6. OneOwner' /\ StatusInv' /\ RunInv' /\ PollInv'
  BY <1>2, <1>3, <1>5, TaskEnds
<1> QED
  BY <1>4, <1>6 DEF IInv

\* The end of an orphan leaves only children with a task.
LEMMA OrphanExitsIInv ==
    ASSUME IInv, NEW r, OrphanExits(r) PROVE IInv'
<1>1. TypeOK'
  BY DEF IInv, TypeOK, OrphanExits
<1>2. OneOwner' /\ RunInv' /\ StatusInv'
  BY DEF IInv, OneOwner, RunInv, StatusInv, Holds, Named, OrphanExits
<1>3. PollInv'
  BY DEF IInv, PollInv, TaskAt, OrphanExits
<1> QED
  BY <1>1, <1>2, <1>3 DEF IInv

-----------------------------------------------------------------------------
(* Polls, cancels and restarts.                                              *)

\* What the invariant needs of a step of a poll: it leaves the tasks alone and
\* sees no child when it comes to "dead".
LEMMA PollGoesOn ==
    ASSUME IInv, NEW p \in Pollers, NEW q \in Poll, poll' = [poll EXCEPT ![p] = q],
           q.pc = "dead" => alive = {} \/ poll[p].pc = "dead",
           Named(q.snapshot), Named(mem'), Named(disk'),
           mem' \in Status, disk' \in Status,
           UNCHANGED <<kind, owned, flag, alive, task, cancel, runs, crashes>>
    PROVE  IInv'
<1>1. poll'[p] = q /\ \A o \in Pollers \ {p} : poll'[o] = poll[o]
  BY DEF IInv, TypeOK
<1>2. TypeOK'
  BY DEF IInv, TypeOK
<1>3. OneOwner' /\ RunInv'
  BY DEF IInv, OneOwner, RunInv, Holds
<1>4. StatusInv'
  <2>1. \A o \in Pollers : Named(poll'[o].snapshot)
    BY <1>1 DEF IInv, StatusInv
  <2>2. \A h \in Handlers : Named(task'[h].snapshot)
    BY DEF IInv, StatusInv
  <2> QED
    BY <2>1, <2>2 DEF StatusInv, Named
<1>5. PollInv'
  BY <1>1 DEF IInv, PollInv, TaskAt
<1> QED
  BY <1>2, <1>3, <1>4, <1>5 DEF IInv

\* No step of a poll touches a task, and it comes to "dead" without a child.
LEMMA PollIInv ==
    ASSUME IInv, NEW p \in Pollers, PollSteps(p) PROVE IInv'
<1>1. /\ poll[p] \in Poll /\ poll[p].snapshot \in Status /\ mem \in Status /\ disk \in Status
      /\ Named(poll[p].snapshot) /\ Named(mem) /\ Named(disk)
      /\ NoPoll \in Poll /\ NoPoll.pc = "idle" /\ NoPoll.snapshot = NeverRun /\ Named(NeverRun)
  BY Constructors DEF IInv, TypeOK, StatusInv, Poll, NoPoll
<1>2. CASE PollRead(p)
  <2> DEFINE q == [NoPoll EXCEPT !.pc = "seen", !.status = mem]
  <2>1. q \in Poll /\ q.pc = "seen" /\ q.snapshot = NeverRun
    BY <1>1 DEF NoPoll, Poll
  <2>2. poll' = [poll EXCEPT ![p] = q]
    BY <1>2 DEF PollRead
  <2> HIDE DEF q
  <2> QED
    <3>1. UNCHANGED <<kind, mem, disk, owned, flag, alive, task, cancel, runs, crashes>>
      BY <1>2 DEF PollRead
    <3>2. Named(q.snapshot) /\ q.pc # "dead"
      BY <1>1, <2>1
    <3> QED
      BY <1>1, <2>1, <2>2, <3>1, <3>2, PollGoesOn
<1>3. CASE PollOwner(p)
  <2> DEFINE q == IF owned THEN NoPoll ELSE [poll[p] EXCEPT !.pc = "foreign"]
  <2>1. q \in Poll /\ q.pc # "dead" /\ Named(q.snapshot)
    BY <1>1 DEF Poll
  <2>2. poll' = [poll EXCEPT ![p] = q]
    BY <1>3 DEF PollOwner
  <2> HIDE DEF q
  <2> QED
    BY <1>1, <1>3, <2>1, <2>2, PollGoesOn DEF PollOwner
<1>4. CASE PollPgrep(p)
  <2> DEFINE q == IF alive # {} THEN NoPoll ELSE [poll[p] EXCEPT !.pc = "dead"]
  <2>1. q \in Poll /\ (q.pc = "dead" => alive = {}) /\ Named(q.snapshot)
    BY <1>1 DEF Poll
  <2>2. poll' = [poll EXCEPT ![p] = q]
    BY <1>4 DEF PollPgrep
  <2> HIDE DEF q
  <2> QED
    BY <1>1, <1>4, <2>1, <2>2, PollGoesOn DEF PollPgrep
<1>5. CASE PollRecord(p)
  <2> DEFINE q == IF Interrupted(poll[p].status) THEN [NoPoll EXCEPT !.pc = "recorded"]
                                                 ELSE NoPoll
  <2>1. q \in Poll /\ q.pc # "dead" /\ Named(q.snapshot)
    BY <1>1 DEF Poll, NoPoll
  <2>2. poll' = [poll EXCEPT ![p] = q]
    BY <1>5 DEF PollRecord
  <2>3. mem' \in Status /\ Named(mem')
    <3>1. EntryRun \in 0 .. MaxRuns
      BY <1>1 DEF EntryRun, Status
    <3>2. CASE Interrupted(poll[p].status)
      <4>1. mem' = [NeverRun EXCEPT !.last = [run |-> EntryRun, outcome |-> "interrupted"]]
        BY <1>5, <3>2 DEF PollRecord
      <4> QED
        BY <3>1, <4>1, Constructors DEF Status, Named, NeverRun
    <3>3. CASE ~Interrupted(poll[p].status)
      BY <1>1, <1>5, <3>3 DEF PollRecord
    <3> QED
      BY <3>2, <3>3
  <2> HIDE DEF q
  <2> QED
    BY <1>1, <1>5, <2>1, <2>2, <2>3, PollGoesOn DEF PollRecord
<1>6. CASE PollSnapshot(p)
  <2> DEFINE q == [NoPoll EXCEPT !.pc = "saving", !.snapshot = mem]
  <2>1. q \in Poll /\ q.pc = "saving" /\ q.snapshot = mem
    BY <1>1 DEF NoPoll, Poll
  <2>2. poll' = [poll EXCEPT ![p] = q]
    BY <1>6 DEF PollSnapshot
  <2> HIDE DEF q
  <2> QED
    BY <1>1, <1>6, <2>1, <2>2, PollGoesOn DEF PollSnapshot
<1>7. CASE PollSave(p)
  <2>1. disk' \in Status /\ Named(disk')
    BY <1>1, <1>7, WrittenStatus DEF PollSave, IInv
  <2> QED
    BY <1>1, <1>7, <2>1, PollGoesOn DEF PollSave
<1> QED
  BY <1>2, <1>3, <1>4, <1>5, <1>6, <1>7 DEF PollSteps

\* A cancel only files a request.
LEMMA CancelIInv ==
    ASSUME IInv, NEW c \in Cancels, CancelRead(c) \/ CancelFlag(c) \/ CancelKill(c)
    PROVE  IInv'
<1> USE DEF CancelRead, CancelFlag, CancelKill
<1>1. TypeOK'
  BY DEF IInv, TypeOK
<1>2. OneOwner' /\ RunInv'
  BY DEF IInv, OneOwner, RunInv, Holds
<1>3. StatusInv' /\ PollInv'
  BY DEF IInv, StatusInv, PollInv, Named, TaskAt
<1> QED
  BY <1>1, <1>2, <1>3 DEF IInv

\* After a restart no task, poll or reservation is left.
LEMMA RestartIInv ==
    ASSUME IInv, Restart PROVE IInv'
<1>1. disk' \in Status /\ Named(disk') /\ mem' = disk'
  BY Constructors DEF Restart, IInv, TypeOK, StatusInv
<1>2. /\ \A h \in Handlers : task'[h] = NoTask
      /\ \A p \in Pollers : poll'[p] = NoPoll
  BY DEF Restart
<1>3. TypeOK'
  <2>1. task' \in [Handlers -> Task] /\ poll' \in [Pollers -> Poll]
    BY Constructors DEF Restart
  <2>2. crashes' \in 0 .. MaxCrashes
    BY FsOperationAssumption DEF FsOperationAssumption, Restart, IInv, TypeOK
  <2> QED
    BY <1>1, <2>1, <2>2 DEF Restart, IInv, TypeOK
<1>4. OneOwner' /\ RunInv'
  BY <1>2 DEF Restart, OneOwner, RunInv, Holds, NoTask
<1>5. StatusInv' /\ PollInv'
  BY <1>1, <1>2, Constructors DEF StatusInv, PollInv, NoTask, NoPoll, Named
<1> QED
  BY <1>3, <1>4, <1>5 DEF IInv

-----------------------------------------------------------------------------
(* The theorems.                                                             *)

\* Every step keeps the invariant.
LEMMA NextIInv == IInv /\ [Next]_vars => IInv'
<1> SUFFICES ASSUME IInv, [Next]_vars PROVE IInv'
    OBVIOUS
<1>1. CASE UNCHANGED vars
  BY <1>1 DEF vars, IInv, TypeOK, OneOwner, StatusInv, RunInv, PollInv, Holds, Named, TaskAt
<1>2. CASE Next
  BY <1>2, StartCheckIInv, ReserveIInv, StartRefusedIInv, StampIInv, TaskSnapshotIInv,
     SpawnIInv, ChildExitsIInv, DecideIInv, RecordIInv, FinishIInv, ReleaseIInv,
     DroppedIInv, OrphanExitsIInv, PollIInv, CancelIInv, RestartIInv
     DEF Next, TaskSteps
<1> QED
  BY <1>1, <1>2

\* The invariant that the theorems below rest on.
THEOREM Inductive == Spec => []IInv
  BY InitIInv, NextIInv, PTL DEF Spec

\* Every variable of FsOperation keeps its type.
THEOREM TypeCorrect == Spec => []TypeOK
<1>1. IInv => TypeOK
  BY DEF IInv
<1> QED
  BY Inductive, <1>1, PTL

\* LocalOperationReservation is exclusive: at most one call or task of this
\* engine works on the filesystem, and the set has its name exactly then.
THEOREM ReservationExclusive == Spec => []OneOwner
<1>1. IInv => OneOwner
  BY DEF IInv
<1> QED
  BY Inductive, <1>1, PTL

\* Only a task that records its run, and a poll that records an interrupted one,
\* change the result shown while the engine stays up.
LEMMA ResultStep ==
    ASSUME IInv, [Next]_vars, ~Restarts, mem'.last # mem.last
    PROVE  \/ \E h \in Handlers : Record(h)
           \/ \E p \in Pollers : PollRecord(p) /\ Interrupted(poll[p].status)
<1>1. mem' # mem
  OBVIOUS
<1>2. \A h \in Handlers : ~Stamp(h)
  BY DEF Stamp, IInv, TypeOK, Status
<1>3. ~Restart
  BY DEF Restart, Restarts, IInv, TypeOK
<1> QED
  BY <1>1, <1>2, <1>3
     DEF Next, vars, TaskSteps, PollSteps, StartCheck, Reserve, StartRefused,
         TaskSnapshot, Spawn, ChildExits, Decide, Finish, Release, Dropped,
         OrphanExits, PollRead, PollOwner, PollPgrep, PollRecord, PollSnapshot,
         PollSave, CancelRead, CancelFlag, CancelKill

\* The step that records an interruption: nobody holds the reservation, so no task and,
\* by what the poll saw, no child is left.
LEMMA InterruptedStep ==
    ASSUME IInv, [Next]_vars, ~Restarts, mem'.last.outcome = "interrupted",
           mem'.last # mem.last
    PROVE  /\ mem'.last.run \notin alive
           /\ \A h \in Handlers : task[h].run # mem'.last.run
<1>1. PICK p \in Pollers : PollRecord(p) /\ Interrupted(poll[p].status)
  <2>1. \A h \in Handlers : ~Record(h)
    <3> SUFFICES ASSUME NEW h \in Handlers, Record(h) PROVE FALSE
      OBVIOUS
    <3>1. mem'.last.outcome = task[h].result
      BY DEF Record, NeverRun
    <3> QED
      BY <3>1 DEF IInv, TypeOK, Task, Outcomes
  <2> QED
    BY <2>1, ResultStep
<1>2. ~owned /\ mem.running /\ mem'.last.run = mem.run
  BY <1>1 DEF PollRecord, Interrupted, EntryRun, NeverRun
<1>3. \A h \in Handlers : ~Holds(h) /\ task[h].run = 0
  BY <1>2 DEF IInv, OneOwner, RunInv
<1>4. mem.run # 0
  BY <1>2 DEF IInv, StatusInv, Named
<1>5. alive = {}
  <2>1. \A h \in Handlers : ~TaskAt(h, "child")
    BY <1>3 DEF Holds, TaskAt
  <2> QED
    BY <1>1, <2>1 DEF IInv, PollInv, PollRecord
<1> QED
  BY <1>2, <1>3, <1>4, <1>5

\* A status poll records a run as interrupted only when its child is gone and no
\* task of this engine can still report it.
THEOREM InterruptedOnlyWhenDead == Spec => InterruptedIsDead
<1>1. IInv /\ [Next]_vars =>
        [~Restarts /\ mem'.last.outcome = "interrupted" /\ mem'.last # mem.last =>
           /\ mem'.last.run \notin alive
           /\ \A h \in Handlers : task[h].run # mem'.last.run]_vars
  BY InterruptedStep
<1> QED
  BY Inductive, <1>1, PTL DEF Spec, InterruptedIsDead
-----------------------------------------------------------------------------
(* A run has one result: what the run's own task recorded stays.             *)

\* The runs that a status names have begun, and the one it shows as running is not
\* the one whose result it shows.
Ordered(s, n) == s.run <= n /\ s.last.run <= n /\ (s.running => s.run # s.last.run)

\* Where a task has still to record its run.
Unrecorded == {"reserved", "stamped", "saving", "child", "exited", "decided"}

\* What memory, the file and every snapshot on its way to it hold, and that the
\* result shown is not that of a run whose task has still to record it.
ResultInv ==
    /\ Ordered(mem, runs) /\ Ordered(disk, runs)
    /\ \A h \in Handlers : /\ Ordered(task[h].snapshot, runs)
                           /\ task[h].run <= runs
                           /\ task[h].pc \in Unrecorded => task[h].run # mem.last.run
    /\ \A p \in Pollers : Ordered(poll[p].snapshot, runs)

\* A status that shows nothing names no run.
LEMMA NothingOrdered == \A n \in Nat : Ordered(NeverRun, n)
  BY DEF Ordered, NeverRun, NoResult

\* A status that was in order stays so when a run begins.
LEMMA StaysOrdered ==
    ASSUME NEW s \in Status, NEW m \in Nat, NEW n \in Nat, m <= n, Ordered(s, m)
    PROVE  Ordered(s, n)
<1>1. s.run \in 0 .. MaxRuns /\ s.last.run \in 0 .. MaxRuns
  BY DEF Status
<1> QED
  BY <1>1, FsOperationAssumption DEF Ordered, FsOperationAssumption

\* A write leaves a status in order.
LEMMA WrittenOrdered ==
    ASSUME IInv, ResultInv, NEW s, Ordered(s, runs), NEW d \in Written(s)
    PROVE  Ordered(d, runs)
<1>1. Ordered(disk, runs) /\ Ordered(NeverRun, runs)
  BY NothingOrdered, FsOperationAssumption DEF ResultInv, IInv, TypeOK, FsOperationAssumption
<1> QED
  BY <1>1 DEF Written

\* What the invariant needs of a step of a start call or its task.
LEMMA TaskResult ==
    ASSUME IInv, ResultInv, NEW h \in Handlers, NEW t, task' = [task EXCEPT ![h] = t],
           Ordered(mem', runs'), Ordered(disk', runs'), Ordered(t.snapshot, runs'),
           t.run <= runs', t.pc \in Unrecorded => t.run # mem'.last.run,
           runs' \in {runs, runs + 1}, Holds(h) \/ mem'.last = mem.last,
           UNCHANGED poll
    PROVE  ResultInv'
<1>1. task'[h] = t /\ \A g \in Handlers \ {h} : task'[g] = task[g]
  BY DEF IInv, TypeOK
<1>2. runs \in Nat /\ runs' \in Nat /\ runs <= runs'
  BY FsOperationAssumption DEF FsOperationAssumption, IInv, TypeOK
<1>3. ASSUME NEW g \in Handlers
      PROVE  /\ Ordered(task'[g].snapshot, runs')
             /\ task'[g].run <= runs'
             /\ task'[g].pc \in Unrecorded => task'[g].run # mem'.last.run
  <2>1. CASE g = h
    BY <1>1, <2>1
  <2>2. CASE g # h
    <3>1. task'[g] = task[g] /\ task[g] \in Task
      BY <1>1, <2>2 DEF IInv, TypeOK
    <3>2. task[g].snapshot \in Status /\ task[g].run \in 0 .. MaxRuns
      BY <3>1 DEF Task
    <3>3. Ordered(task[g].snapshot, runs')
      BY <1>2, <3>2, StaysOrdered DEF ResultInv
    <3>4. task[g].run <= runs'
      BY <1>2, <3>2, FsOperationAssumption DEF ResultInv, FsOperationAssumption
    <3>5. CASE Holds(h)
      <4>1. ~Holds(g)
        BY <2>2, <3>5 DEF IInv, OneOwner
      <4>2. task[g].pc \notin Unrecorded
        BY <4>1 DEF Holds, Unrecorded
      <4> QED
        BY <3>1, <3>3, <3>4, <4>2
    <3>6. CASE mem'.last = mem.last
      BY <3>1, <3>3, <3>4, <3>6 DEF ResultInv
    <3> QED
      BY <3>5, <3>6
  <2> QED
    BY <2>1, <2>2
<1>4. ASSUME NEW p \in Pollers PROVE Ordered(poll'[p].snapshot, runs')
  <2>1. poll[p].snapshot \in Status
    BY DEF IInv, TypeOK, Poll
  <2> QED
    BY <1>2, <2>1, StaysOrdered DEF ResultInv
<1> QED
  BY <1>3, <1>4 DEF ResultInv

\* What the invariant needs of a step of a poll.
LEMMA PollResult ==
    ASSUME IInv, ResultInv, NEW p \in Pollers, NEW q, poll' = [poll EXCEPT ![p] = q],
           Ordered(mem', runs), Ordered(disk', runs), Ordered(q.snapshot, runs),
           ~owned \/ mem'.last = mem.last, UNCHANGED <<task, runs>>
    PROVE  ResultInv'
<1>1. \A o \in Pollers : Ordered(poll'[o].snapshot, runs)
  BY DEF IInv, TypeOK, ResultInv
<1>2. ASSUME NEW g \in Handlers, task[g].pc \in Unrecorded
      PROVE  task[g].run # mem'.last.run
  <2>1. Holds(g)
    BY <1>2 DEF Holds, Unrecorded
  <2>2. owned
    BY <2>1 DEF IInv, OneOwner
  <2> QED
    BY <1>2, <2>2 DEF ResultInv
<1> QED
  BY <1>1, <1>2 DEF ResultInv

\* Every step of a start call and of its task: a new run's number is new, and the
\* task that records its run does so once.
LEMMA TaskStepResult ==
    ASSUME IInv, ResultInv, NEW h \in Handlers,
           StartCheck(h) \/ Reserve(h) \/ StartRefused(h) \/ TaskSteps(h) \/ Dropped(h)
    PROVE  ResultInv'
<1>1. /\ task[h] \in Task /\ task[h].run \in 0 .. MaxRuns /\ mem \in Status
      /\ runs \in Nat /\ mem.last.run \in 0 .. MaxRuns /\ mem.run \in 0 .. MaxRuns
  BY FsOperationAssumption DEF IInv, TypeOK, Task, Status, FsOperationAssumption
<1>2. /\ Ordered(mem, runs) /\ Ordered(disk, runs) /\ Ordered(task[h].snapshot, runs)
      /\ task[h].run <= runs /\ Ordered(NeverRun, runs)
      /\ task[h].pc \in Unrecorded => task[h].run # mem.last.run
  BY <1>1, NothingOrdered DEF ResultInv
<1>3. /\ NoTask.pc \notin Unrecorded /\ NoTask.run = 0 /\ NoTask.snapshot = NeverRun
      /\ NoTask \in Task
  BY Constructors DEF NoTask, Unrecorded
<1>4. CASE StartCheck(h)
  <2> DEFINE t == [task[h] EXCEPT !.pc = "checked"]
  <2>1. t.run = task[h].run /\ t.snapshot = task[h].snapshot /\ t.pc \notin Unrecorded
    BY <1>1 DEF Task, Unrecorded
  <2>2. /\ task' = [task EXCEPT ![h] = t]
        /\ UNCHANGED <<mem, disk, poll, runs>>
    BY <1>4 DEF StartCheck, Goto
  <2> HIDE DEF t
  <2> QED
    BY <1>2, <2>1, <2>2, TaskResult
<1>5. CASE Reserve(h)
  <2>1. PICK now \in 1 .. MaxClock :
           task' = [task EXCEPT ![h] = [NoTask EXCEPT !.pc = "reserved",
                                                      !.run = runs + 1, !.now = now]]
    BY <1>5 DEF Reserve
  <2> DEFINE t == [NoTask EXCEPT !.pc = "reserved", !.run = runs + 1, !.now = now]
  <2>2. t.pc = "reserved" /\ t.run = runs + 1 /\ t.snapshot = NeverRun
    BY DEF NoTask
  <2>3. /\ task' = [task EXCEPT ![h] = t]
        /\ UNCHANGED <<mem, disk, poll>> /\ runs' = runs + 1
    BY <1>5, <2>1 DEF Reserve
  <2> HIDE DEF t
  <2>4. runs + 1 \in Nat /\ runs <= runs + 1
    BY <1>1
  <2>5. Ordered(mem, runs + 1) /\ Ordered(disk, runs + 1) /\ Ordered(NeverRun, runs + 1)
    <3>1. disk \in Status
      BY DEF IInv, TypeOK
    <3> QED
      BY <1>1, <1>2, <2>4, <3>1, StaysOrdered, NothingOrdered
  <2>6. t.run # mem.last.run /\ t.run <= runs'
    <3>1. mem.last.run <= runs
      BY <1>2 DEF Ordered
    <3> QED
      BY <1>1, <2>2, <2>3, <3>1, FsOperationAssumption DEF FsOperationAssumption
  <2> QED
    BY <2>2, <2>3, <2>5, <2>6, TaskResult
<1>6. CASE StartRefused(h)
  <2>1. task' = [task EXCEPT ![h] = NoTask] /\ UNCHANGED <<mem, disk, poll, runs>>
    BY <1>6 DEF StartRefused
  <2>2. NoTask.run <= runs
    BY <1>1, <1>3
  <2> QED
    BY <1>2, <1>3, <2>1, <2>2, TaskResult
<1>7. CASE Stamp(h)
  <2> DEFINE t == [task[h] EXCEPT !.pc = "stamped"]
  <2>1. t.run = task[h].run /\ t.snapshot = task[h].snapshot
    BY <1>1 DEF Task
  <2>2. /\ task' = [task EXCEPT ![h] = t]
        /\ mem' = [mem EXCEPT !.running = TRUE, !.run = task[h].run, !.started = task[h].now]
        /\ UNCHANGED <<disk, poll, runs>> /\ task[h].pc = "reserved"
    BY <1>7 DEF Stamp, Goto, TaskAt
  <2> HIDE DEF t
  <2>3. mem'.last = mem.last /\ mem'.run = task[h].run
    BY <1>1, <2>2 DEF Status
  <2>4. task[h].run # mem.last.run
    BY <1>2, <2>2 DEF Unrecorded
  <2>5. Ordered(mem', runs)
    BY <1>2, <2>3, <2>4 DEF Ordered
  <2> QED
    BY <1>2, <2>1, <2>2, <2>3, <2>4, <2>5, TaskResult
<1>8. CASE TaskSnapshot(h)
  <2> DEFINE pc == IF TaskAt(h, "stamped") THEN "saving" ELSE "finishing"
             t == [task[h] EXCEPT !.pc = pc, !.snapshot = mem]
  <2>1. t.run = task[h].run /\ t.snapshot = mem /\ t.pc = pc
    BY <1>1 DEF Task
  <2>2. /\ task' = [task EXCEPT ![h] = t] /\ UNCHANGED <<mem, disk, poll, runs>>
    BY <1>8 DEF TaskSnapshot
  <2>3. t.pc \in Unrecorded => task[h].pc \in Unrecorded
    BY <2>1 DEF TaskAt, Unrecorded
  <2> HIDE DEF t
  <2> QED
    BY <1>2, <2>1, <2>2, <2>3, TaskResult
<1>9. CASE Spawn(h)
  <2>1. disk' \in Written(task[h].snapshot) /\ UNCHANGED <<mem, poll, runs>>
    BY <1>9 DEF Spawn
  <2>2. Ordered(disk', runs)
    BY <1>2, <2>1, WrittenOrdered
  <2>3. PICK t : /\ task' = [task EXCEPT ![h] = t]
                 /\ t.run = task[h].run /\ t.snapshot = NeverRun
    <3>1. CASE task' = [task EXCEPT ![h] = [NoTask EXCEPT !.pc = "child",
                                                          !.run = task[h].run]]
      <4> DEFINE u == [NoTask EXCEPT !.pc = "child", !.run = task[h].run]
      <4>1. u.run = task[h].run /\ u.snapshot = NeverRun
        BY DEF NoTask
      <4>2. task' = [task EXCEPT ![h] = u]
        BY <3>1
      <4> HIDE DEF u
      <4> QED
        BY <4>1, <4>2
    <3>2. CASE task' = [task EXCEPT ![h] = [NoTask EXCEPT !.pc = "exited",
                                              !.result = "failed", !.run = task[h].run]]
      <4> DEFINE u == [NoTask EXCEPT !.pc = "exited", !.result = "failed",
                                     !.run = task[h].run]
      <4>1. u.run = task[h].run /\ u.snapshot = NeverRun
        BY DEF NoTask
      <4>2. task' = [task EXCEPT ![h] = u]
        BY <3>2
      <4> HIDE DEF u
      <4> QED
        BY <4>1, <4>2
    <3> QED
      BY <1>9, <3>1, <3>2 DEF Spawn
  <2>4. task[h].run # mem.last.run
    BY <1>2, <1>9 DEF Spawn, TaskAt, Unrecorded
  <2> QED
    BY <1>2, <2>1, <2>2, <2>3, <2>4, TaskResult
<1>10. CASE ChildExits(h) \/ Decide(h)
  <2>1. PICK t : /\ task' = [task EXCEPT ![h] = t]
                 /\ t.run = task[h].run /\ t.snapshot = task[h].snapshot
    <3>1. CASE ChildExits(h)
      <4>1. PICK r \in Outcomes :
               task' = [task EXCEPT ![h] = [task[h] EXCEPT !.pc = "exited", !.result = r]]
        BY <3>1 DEF ChildExits
      <4> DEFINE u == [task[h] EXCEPT !.pc = "exited", !.result = r]
      <4>2. u.run = task[h].run /\ u.snapshot = task[h].snapshot
        BY <1>1 DEF Task
      <4>3. task' = [task EXCEPT ![h] = u]
        BY <4>1
      <4> HIDE DEF u
      <4> QED
        BY <4>2, <4>3
    <3>2. CASE Decide(h)
      <4> DEFINE u == IF kind = "scrub" /\ flag
                      THEN [task[h] EXCEPT !.pc = "decided", !.result = "cancelled"]
                      ELSE [task[h] EXCEPT !.pc = "decided"]
      <4>1. u.run = task[h].run /\ u.snapshot = task[h].snapshot
        BY <1>1 DEF Task
      <4>2. task' = [task EXCEPT ![h] = u]
        BY <3>2 DEF Decide, Goto
      <4> HIDE DEF u
      <4> QED
        BY <4>1, <4>2
    <3> QED
      BY <1>10, <3>1, <3>2
  <2>2. UNCHANGED <<mem, disk, poll, runs>> /\ task[h].pc \in Unrecorded
    BY <1>10 DEF ChildExits, Decide, TaskAt, Unrecorded
  <2> QED
    BY <1>2, <2>1, <2>2, TaskResult
<1>11. CASE Record(h)
  <2> DEFINE t == [task[h] EXCEPT !.pc = "recorded"]
  <2>1. t.run = task[h].run /\ t.snapshot = task[h].snapshot /\ t.pc \notin Unrecorded
    BY <1>1 DEF Task, Unrecorded
  <2>2. /\ task' = [task EXCEPT ![h] = t] /\ UNCHANGED <<disk, poll, runs>> /\ Holds(h)
    BY <1>11 DEF Record, Goto, TaskAt, Holds
  <2> HIDE DEF t
  <2>3. mem'.run = 0 /\ mem'.last.run = task[h].run /\ ~mem'.running
    BY <1>11 DEF Record, NeverRun
  <2>4. Ordered(mem', runs)
    BY <1>1, <1>2, <2>3 DEF Ordered
  <2> QED
    BY <1>2, <2>1, <2>2, <2>4, TaskResult
<1>12. CASE Finish(h)
  <2> DEFINE t == [NoTask EXCEPT !.pc = "release", !.run = task[h].run]
  <2>1. t.run = task[h].run /\ t.snapshot = NeverRun /\ t.pc \notin Unrecorded
    BY DEF NoTask, Unrecorded
  <2>2. /\ task' = [task EXCEPT ![h] = t] /\ UNCHANGED <<mem, poll, runs>>
        /\ disk' \in Written(task[h].snapshot)
    BY <1>12 DEF Finish
  <2> HIDE DEF t
  <2>3. Ordered(disk', runs)
    BY <1>2, <2>2, WrittenOrdered
  <2> QED
    BY <1>2, <2>1, <2>2, <2>3, TaskResult
<1>13. CASE Release(h) \/ Dropped(h)
  <2>1. task' = [task EXCEPT ![h] = NoTask] /\ UNCHANGED <<mem, poll, runs>>
    BY <1>13 DEF Release, Dropped
  <2>2. disk' = disk \/ disk' \in Written(task[h].snapshot)
    BY <1>13 DEF Release, Dropped
  <2>3. Ordered(disk', runs)
    BY <1>2, <2>2, WrittenOrdered
  <2>4. NoTask.run <= runs
    BY <1>1, <1>3
  <2> QED
    BY <1>2, <1>3, <2>1, <2>3, <2>4, TaskResult
<1> QED
  BY <1>4, <1>5, <1>6, <1>7, <1>8, <1>9, <1>10, <1>11, <1>12, <1>13 DEF TaskSteps

\* Every step of a poll: the one that records an interrupted run finds no task of
\* this engine that could still record it.
LEMMA PollStepResult ==
    ASSUME IInv, ResultInv, NEW p \in Pollers, PollSteps(p)
    PROVE  ResultInv'
<1>1. /\ poll[p] \in Poll /\ mem \in Status /\ runs \in Nat
      /\ NoPoll.snapshot = NeverRun
  BY FsOperationAssumption DEF IInv, TypeOK, FsOperationAssumption, NoPoll
<1>2. /\ Ordered(mem, runs) /\ Ordered(disk, runs) /\ Ordered(poll[p].snapshot, runs)
      /\ Ordered(NeverRun, runs)
  BY <1>1, NothingOrdered DEF ResultInv
<1>3. CASE PollRead(p) \/ PollOwner(p) \/ PollPgrep(p)
  <2>1. PICK q : poll' = [poll EXCEPT ![p] = q] /\ q.snapshot \in {NeverRun, poll[p].snapshot}
    <3>1. CASE PollRead(p)
      <4> DEFINE q == [NoPoll EXCEPT !.pc = "seen", !.status = mem]
      <4>1. q.snapshot = NeverRun
        BY DEF NoPoll
      <4>2. poll' = [poll EXCEPT ![p] = q]
        BY <3>1 DEF PollRead
      <4> HIDE DEF q
      <4> QED
        BY <4>1, <4>2
    <3>2. CASE PollOwner(p)
      <4> DEFINE q == IF owned THEN NoPoll ELSE [poll[p] EXCEPT !.pc = "foreign"]
      <4>1. q.snapshot \in {NeverRun, poll[p].snapshot}
        BY <1>1 DEF Poll
      <4>2. poll' = [poll EXCEPT ![p] = q]
        BY <3>2 DEF PollOwner
      <4> HIDE DEF q
      <4> QED
        BY <4>1, <4>2
    <3>3. CASE PollPgrep(p)
      <4> DEFINE q == IF alive # {} THEN NoPoll ELSE [poll[p] EXCEPT !.pc = "dead"]
      <4>1. q.snapshot \in {NeverRun, poll[p].snapshot}
        BY <1>1 DEF Poll
      <4>2. poll' = [poll EXCEPT ![p] = q]
        BY <3>3 DEF PollPgrep
      <4> HIDE DEF q
      <4> QED
        BY <4>1, <4>2
    <3> QED
      BY <1>3, <3>1, <3>2, <3>3
  <2>2. UNCHANGED <<mem, disk, task, runs>>
    BY <1>3 DEF PollRead, PollOwner, PollPgrep
  <2> QED
    BY <1>2, <2>1, <2>2, PollResult
<1>4. CASE PollRecord(p)
  <2> DEFINE q == IF Interrupted(poll[p].status) THEN [NoPoll EXCEPT !.pc = "recorded"]
                                                 ELSE NoPoll
  <2>1. q.snapshot = NeverRun
    BY DEF NoPoll
  <2>2. poll' = [poll EXCEPT ![p] = q] /\ UNCHANGED <<disk, task, runs>>
    BY <1>4 DEF PollRecord
  <2> HIDE DEF q
  <2>3. Ordered(mem', runs) /\ (~owned \/ mem'.last = mem.last)
    <3>1. CASE Interrupted(poll[p].status)
      <4>1. /\ mem'.run = 0 /\ ~mem'.running /\ mem'.last.run = mem.run /\ ~owned
        BY <1>4, <3>1 DEF PollRecord, NeverRun, Interrupted, EntryRun
      <4> QED
        BY <1>1, <1>2, <4>1 DEF Ordered
    <3>2. CASE ~Interrupted(poll[p].status)
      BY <1>2, <1>4, <3>2 DEF PollRecord
    <3> QED
      BY <3>1, <3>2
  <2> QED
    BY <1>2, <2>1, <2>2, <2>3, PollResult
<1>5. CASE PollSnapshot(p)
  <2> DEFINE q == [NoPoll EXCEPT !.pc = "saving", !.snapshot = mem]
  <2>1. q.snapshot = mem
    BY DEF NoPoll
  <2>2. poll' = [poll EXCEPT ![p] = q] /\ UNCHANGED <<mem, disk, task, runs>>
    BY <1>5 DEF PollSnapshot
  <2> HIDE DEF q
  <2> QED
    BY <1>2, <2>1, <2>2, PollResult
<1>6. CASE PollSave(p)
  <2>1. /\ poll' = [poll EXCEPT ![p] = NoPoll] /\ UNCHANGED <<mem, task, runs>>
        /\ disk' \in Written(poll[p].snapshot)
    BY <1>6 DEF PollSave
  <2>2. Ordered(disk', runs)
    BY <1>2, <2>1, WrittenOrdered
  <2> QED
    BY <1>1, <1>2, <2>1, <2>2, PollResult
<1> QED
  BY <1>3, <1>4, <1>5, <1>6 DEF PollSteps

\* A restart loads what some write has left, and no task is left to record a run.
LEMMA RestartResult ==
    ASSUME IInv, ResultInv, Restart PROVE ResultInv'
<1>1. runs \in Nat /\ runs' = runs /\ mem' = disk'
  BY FsOperationAssumption DEF FsOperationAssumption, IInv, TypeOK, Restart
<1>2. Ordered(disk, runs) /\ Ordered(NeverRun, runs)
  BY <1>1, NothingOrdered DEF ResultInv
<1>3. Ordered(disk', runs)
  BY <1>2 DEF Restart
<1>4. /\ \A h \in Handlers : task'[h] = NoTask
      /\ \A p \in Pollers : poll'[p] = NoPoll
  BY DEF Restart
<1>5. /\ NoTask.pc \notin Unrecorded /\ NoTask.run <= runs /\ NoTask.snapshot = NeverRun
      /\ NoPoll.snapshot = NeverRun
  BY <1>1 DEF NoTask, NoPoll, Unrecorded
<1> QED
  BY <1>1, <1>2, <1>3, <1>4, <1>5 DEF ResultInv

\* The results of runs are in order in every reachable state.
THEOREM ResultsOrdered == Spec => []ResultInv
<1>1. Init => ResultInv
  <2> SUFFICES ASSUME Init PROVE ResultInv
    OBVIOUS
  <2>1. Ordered(NeverRun, runs) /\ runs = 0
    BY NothingOrdered DEF Init
  <2>2. /\ \A h \in Handlers : task[h] = NoTask
        /\ \A p \in Pollers : poll[p] = NoPoll
    BY DEF Init
  <2>3. /\ NoTask.pc \notin Unrecorded /\ NoTask.run <= runs /\ NoTask.snapshot = NeverRun
        /\ NoPoll.snapshot = NeverRun
    BY <2>1 DEF NoTask, NoPoll, Unrecorded
  <2> QED
    BY <2>1, <2>2, <2>3 DEF Init, ResultInv
<1>2. IInv /\ ResultInv /\ [Next]_vars => ResultInv'
  <2> SUFFICES ASSUME IInv, ResultInv, [Next]_vars PROVE ResultInv'
    OBVIOUS
  <2>1. ASSUME UNCHANGED <<mem, disk, task, poll, runs>> PROVE ResultInv'
    BY <2>1 DEF ResultInv
  <2>2. CASE UNCHANGED vars
    BY <2>1, <2>2 DEF vars
  <2>3. CASE \E r \in 1 .. runs : OrphanExits(r)
    BY <2>1, <2>3 DEF OrphanExits
  <2>4. CASE \E c \in Cancels : CancelRead(c) \/ CancelFlag(c) \/ CancelKill(c)
    BY <2>1, <2>4 DEF CancelRead, CancelFlag, CancelKill
  <2> QED
    BY <2>2, <2>3, <2>4, TaskStepResult, PollStepResult, RestartResult DEF Next
<1> QED
  BY <1>1, <1>2, Inductive, PTL DEF Spec

\* While the engine stays up the result of a run is never replaced by another result
\* of that run: a late poll does not turn a completed scrub or fsck into an
\* interrupted one, and no task records twice.
THEOREM CompletionIsKept == Spec => CompletionKept
<1>1. ASSUME IInv, ResultInv, [Next]_vars, ~Restarts, mem'.last # mem.last
      PROVE  mem'.last.run # mem.last.run
  <2>1. CASE \E h \in Handlers : Record(h)
    <3>1. PICK h \in Handlers : Record(h)
      BY <2>1
    <3>2. mem'.last.run = task[h].run /\ task[h].pc = "decided"
      BY <3>1 DEF Record, TaskAt, NeverRun
    <3>3. task[h].pc \in Unrecorded
      BY <3>2 DEF Unrecorded
    <3> QED
      BY <1>1, <3>2, <3>3 DEF ResultInv
  <2>2. CASE \E p \in Pollers : PollRecord(p) /\ Interrupted(poll[p].status)
    <3>1. mem.running /\ mem'.last.run = mem.run
      BY <2>2 DEF PollRecord, Interrupted, EntryRun, NeverRun
    <3> QED
      BY <1>1, <3>1 DEF ResultInv, Ordered
  <2> QED
    BY <1>1, <2>1, <2>2, ResultStep
<1>2. IInv /\ ResultInv /\ [Next]_vars =>
        [~Restarts /\ mem'.last # mem.last /\ mem.last.run # 0 =>
           mem'.last.run # mem.last.run]_vars
  BY <1>1
<1> QED
  BY <1>2, Inductive, ResultsOrdered, PTL DEF Spec, CompletionKept
===============================================================================
