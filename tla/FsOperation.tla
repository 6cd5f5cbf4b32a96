----------------------------- MODULE FsOperation -----------------------------
(***************************************************************************)
(* The long-running operations of FilesystemService on one filesystem,     *)
(* engine/nasty-storage/src/filesystem.rs: scrub_start, scrub_cancel,      *)
(* scrub_status, fsck_start and fsck_status, the detached task that waits  *)
(* for the bcachefs child, the reservation that says which tasks belong to *)
(* this engine process, the state file, and engine restarts, which leave   *)
(* the child running.                                                      *)
(*                                                                         *)
(* The two kinds share their code structure and no state, so a behaviour   *)
(* follows one of them (`kind').  A call that get() refuses changes        *)
(* nothing and is left out, as are progress percentages and output texts.  *)
(* started_at is the wall clock in seconds: two runs may share it, and it   *)
(* may step back.                                                          *)
(***************************************************************************)
EXTENDS Naturals, FiniteSets

CONSTANTS
    Handlers,     \* concurrent scrub_start / fsck_start calls and their tasks
    Pollers,      \* concurrent *_status calls
    Cancels,      \* concurrent scrub_cancel calls
    MaxRuns,      \* bound on runs
    MaxClock,     \* bound on the values of unix_now_secs; 0 stands for None
    MaxCrashes,   \* bound on engine restarts
    Faults        \* which faults may happen: see the actions

ASSUME FsOperationAssumption ==
    /\ MaxRuns \in Nat
    /\ MaxClock \in Nat \ {0}
    /\ MaxCrashes \in Nat
    /\ Faults \subseteq {"drop", "write"}

VARIABLES
    kind,         \* "scrub" or "fsck"
    mem,          \* the filesystem's entry in scrub_state / fsck_state
    disk,         \* its entry in the state file
    owned,        \* local_scrubs / local_fscks holds the filesystem
    flag,         \* scrub_cancels holds the filesystem
    alive,        \* runs whose bcachefs child exists
    task,         \* a start call and the task it spawns
    poll,         \* a status call
    cancel,       \* a cancel call: where it is
    runs,         \* runs so far
    crashes       \* restarts so far

vars == <<kind, mem, disk, owned, flag, alive, task, poll, cancel, runs,
          crashes>>

-----------------------------------------------------------------------------
\* What a child that was waited for yields; "done" is Ok, Clean and Errors.
Outcomes == {"done", "failed"}

NoResult == [run |-> 0, outcome |-> "none"]

\* A ScrubStatus or FsckStatus: run 0 is no run.
Status == [running : BOOLEAN, run : 0 .. MaxRuns, started : 0 .. MaxClock,
           last : [run : 0 .. MaxRuns,
                   outcome : Outcomes \cup {"none", "cancelled", "interrupted"}]]

NeverRun == [running |-> FALSE, run |-> 0, started |-> 0, last |-> NoResult]

TaskPcs == {"idle", "checked", "reserved", "stamped", "saving", "child", "exited",
            "decided", "recorded", "finishing", "release"}

Task == [pc : TaskPcs, run : 0 .. MaxRuns, now : 0 .. MaxClock,
         result : Outcomes \cup {"none", "cancelled"}, snapshot : Status]

NoTask == [pc |-> "idle", run |-> 0, now |-> 0, result |-> "none",
           snapshot |-> NeverRun]

Poll == [pc : {"idle", "seen", "foreign", "dead", "recorded", "saving"},
         status : Status, snapshot : Status]

NoPoll == [pc |-> "idle", status |-> NeverRun, snapshot |-> NeverRun]

TypeOK ==
    /\ kind \in {"scrub", "fsck"}
    /\ mem \in Status /\ disk \in Status
    /\ owned \in BOOLEAN /\ flag \in BOOLEAN
    /\ alive \subseteq 1 .. MaxRuns
    /\ task \in [Handlers -> Task]
    /\ poll \in [Pollers -> Poll]
    /\ cancel \in [Cancels -> {"idle", "running", "flagged"}]
    /\ runs \in 0 .. MaxRuns
    /\ crashes \in 0 .. MaxCrashes

Init ==
    /\ kind \in {"scrub", "fsck"}
    /\ mem = NeverRun /\ disk = NeverRun
    /\ owned = FALSE /\ flag = FALSE
    /\ alive = {}
    /\ task = [h \in Handlers |-> NoTask]
    /\ poll = [p \in Pollers |-> NoPoll]
    /\ cancel = [c \in Cancels |-> "idle"]
    /\ runs = 0 /\ crashes = 0

-----------------------------------------------------------------------------
(* The state file: a snapshot taken under the lock is written outside it.    *)

Writers == {h \in Handlers : task[h].pc \in {"saving", "finishing"}}
           \cup {p \in Pollers : poll[p].pc = "saving"}

\* What a write of `snapshot' leaves: the snapshot; the old contents or an
\* unreadable file when it fails; an unreadable file when it overlaps another.
Written(snapshot) ==
    {snapshot}
      \cup (IF "write" \in Faults THEN {disk, NeverRun} ELSE {})
      \cup (IF Cardinality(Writers) > 1 THEN {NeverRun} ELSE {})

-----------------------------------------------------------------------------
(* scrub_start, fsck_start and the task they spawn.                          *)

TaskAt(h, pc) == task[h].pc = pc

\* The call or its task has the reservation.
Holds(h) == task[h].pc \notin {"idle", "checked"}

Goto(h, pc) == task' = [task EXCEPT ![h] = [task[h] EXCEPT !.pc = pc]]

\* fsck_start looks at the recorded state first; scrub_start does not.
StartCheck(h) ==
    /\ TaskAt(h, "idle")
    /\ runs < MaxRuns
    /\ kind = "fsck" => ~mem.running
    /\ Goto(h, "checked")
    /\ UNCHANGED <<kind, mem, disk, owned, flag, alive, poll, cancel, runs,
                   crashes>>

Reserve_Unchecked(h) ==
    /\ TaskAt(h, "checked")
    /\ runs < MaxRuns
    /\ owned' = TRUE
    /\ runs' = runs + 1
    /\ \E now \in 1 .. MaxClock :
          task' = [task EXCEPT ![h] = [NoTask EXCEPT !.pc = "reserved",
                                                     !.run = runs + 1, !.now = now]]
    /\ UNCHANGED <<kind, mem, disk, flag, alive, poll, cancel, crashes>>

\* LocalOperationReservation::acquire.
Reserve(h) ==
    /\ TaskAt(h, "checked")
    /\ runs < MaxRuns
    /\ ~owned
    /\ owned' = TRUE
    /\ runs' = runs + 1
    /\ \E now \in 1 .. MaxClock :
          task' = [task EXCEPT ![h] = [NoTask EXCEPT !.pc = "reserved",
                                                     !.run = runs + 1, !.now = now]]
    /\ UNCHANGED <<kind, mem, disk, flag, alive, poll, cancel, crashes>>

StartRefused(h) ==
    /\ TaskAt(h, "checked")
    /\ owned \/ runs = MaxRuns
    /\ task' = [task EXCEPT ![h] = NoTask]
    /\ UNCHANGED <<kind, mem, disk, owned, flag, alive, poll, cancel, runs,
                   crashes>>

Stamp(h) ==
    /\ TaskAt(h, "reserved")
    /\ mem' = [mem EXCEPT !.running = TRUE, !.run = task[h].run,
                          !.started = task[h].now]
    /\ Goto(h, "stamped")
    /\ UNCHANGED <<kind, disk, owned, flag, alive, poll, cancel, runs,
                   crashes>>

\* The first half of persist_scrub_state / persist_fsck_state.
TaskSnapshot(h) ==
    /\ task[h].pc \in {"stamped", "recorded"}
    /\ task' = [task EXCEPT ![h] =
                  [task[h] EXCEPT !.pc = IF TaskAt(h, "stamped") THEN "saving"
                                                                 ELSE "finishing",
                                  !.snapshot = mem]]
    /\ UNCHANGED <<kind, mem, disk, owned, flag, alive, poll, cancel, runs,
                   crashes>>

\* The state is on disk; the task is spawned, and spawns the child or fails to.
Spawn(h) ==
    /\ TaskAt(h, "saving")
    /\ disk' \in Written(task[h].snapshot)
    /\ \/ /\ alive' = alive \cup {task[h].run}
          /\ task' = [task EXCEPT ![h] = [NoTask EXCEPT !.pc = "child", !.run = task[h].run]]
       \/ /\ task' = [task EXCEPT ![h] = [NoTask EXCEPT !.pc = "exited", !.result = "failed",
                                                       !.run = task[h].run]]
          /\ UNCHANGED alive
    /\ UNCHANGED <<kind, mem, owned, flag, poll, cancel, runs, crashes>>

\* The child ends and its output is drained.
ChildExits(h) ==
    /\ TaskAt(h, "child")
    /\ alive' = alive \ {task[h].run}
    /\ \E r \in Outcomes :
          task' = [task EXCEPT ![h] = [task[h] EXCEPT !.pc = "exited", !.result = r]]
    /\ UNCHANGED <<kind, mem, disk, owned, flag, poll, cancel, runs, crashes>>

Decide_Mislabelled(h) ==
    /\ TaskAt(h, "exited")
    /\ flag' = FALSE
    /\ task' = [task EXCEPT ![h].pc = "decided",
                            ![h].result = IF flag THEN "interrupted" ELSE @]
    /\ UNCHANGED <<kind, mem, disk, owned, alive, poll, cancel, runs, crashes>>

\* A pending cancel turns a scrub's outcome into Cancelled.
Decide(h) ==
    /\ TaskAt(h, "exited")
    /\ IF kind = "scrub" /\ flag
       THEN /\ flag' = FALSE
            /\ task' = [task EXCEPT ![h] = [task[h] EXCEPT !.pc = "decided",
                                                           !.result = "cancelled"]]
       ELSE Goto(h, "decided") /\ UNCHANGED flag
    /\ UNCHANGED <<kind, mem, disk, owned, alive, poll, cancel, runs, crashes>>

Record(h) ==
    /\ TaskAt(h, "decided")
    /\ mem' = [NeverRun EXCEPT !.last = [run |-> task[h].run,
                                        outcome |-> task[h].result]]
    /\ Goto(h, "recorded")
    /\ UNCHANGED <<kind, disk, owned, flag, alive, poll, cancel, runs, crashes>>

Finish(h) ==
    /\ TaskAt(h, "finishing")
    /\ disk' \in Written(task[h].snapshot)
    /\ task' = [task EXCEPT ![h] = [NoTask EXCEPT !.pc = "release", !.run = task[h].run]]
    /\ UNCHANGED <<kind, mem, owned, flag, alive, poll, cancel, runs, crashes>>

Release(h) ==
    /\ TaskAt(h, "release")
    /\ owned' = FALSE
    /\ task' = [task EXCEPT ![h] = NoTask]
    /\ UNCHANGED <<kind, mem, disk, flag, alive, poll, cancel, runs, crashes>>

\* The start call is dropped with its REST connection before the spawn: the
\* reservation is released, what was stamped stays.
Dropped(h) ==
    /\ "drop" \in Faults
    /\ task[h].pc \in {"reserved", "stamped", "saving"}
    /\ owned' = FALSE
    /\ task' = [task EXCEPT ![h] = NoTask]
    /\ disk' \in IF TaskAt(h, "saving") THEN {disk} \cup Written(task[h].snapshot)
                                        ELSE {disk}
    /\ UNCHANGED <<kind, mem, flag, alive, poll, cancel, runs, crashes>>

\* A child whose engine is gone ends on its own.
OrphanExits(r) ==
    /\ r \in alive
    /\ \A h \in Handlers : ~(TaskAt(h, "child") /\ task[h].run = r)
    /\ alive' = alive \ {r}
    /\ UNCHANGED <<kind, mem, disk, owned, flag, task, poll, cancel, runs,
                   crashes>>

-----------------------------------------------------------------------------
(* scrub_status and fsck_status.                                             *)

PollRead(p) ==
    /\ poll[p].pc = "idle"
    /\ mem.running
    /\ poll' = [poll EXCEPT ![p] = [NoPoll EXCEPT !.pc = "seen", !.status = mem]]
    /\ UNCHANGED <<kind, mem, disk, owned, flag, alive, task, cancel, runs,
                   crashes>>

\* operation_is_owned_here.
PollOwner(p) ==
    /\ poll[p].pc = "seen"
    /\ poll' = IF owned THEN [poll EXCEPT ![p] = NoPoll]
                        ELSE [poll EXCEPT ![p] = [poll[p] EXCEPT !.pc = "foreign"]]
    /\ UNCHANGED <<kind, mem, disk, owned, flag, alive, task, cancel, runs,
                   crashes>>

PollPgrep_AnyProcess(p) ==
    /\ poll[p].pc = "foreign"
    /\ poll' = [poll EXCEPT ![p] = NoPoll]
    /\ UNCHANGED <<kind, mem, disk, owned, flag, alive, task, cancel, runs, crashes>>

\* pgrep finds any child that works on this filesystem.
PollPgrep(p) ==
    /\ poll[p].pc = "foreign"
    /\ poll' = IF alive # {} THEN [poll EXCEPT ![p] = NoPoll]
                             ELSE [poll EXCEPT ![p] = [poll[p] EXCEPT !.pc = "dead"]]
    /\ UNCHANGED <<kind, mem, disk, owned, flag, alive, task, cancel, runs,
                   crashes>>

Interrupted_AnyOwner(status) ==
    /\ mem.running
    /\ mem.started = status.started

Interrupted_AnyState(status) ==
    /\ ~owned
    /\ status.running

\* should_record_interrupted_operation, with the child seen dead.
Interrupted(status) ==
    /\ ~owned
    /\ mem.running
    /\ mem.started = status.started

\* The run that the entry, and so its new result, is about.
EntryRun == IF mem.running THEN mem.run ELSE mem.last.run

PollRecord(p) ==
    /\ poll[p].pc = "dead"
    /\ IF Interrupted(poll[p].status)
       THEN /\ mem' = [NeverRun EXCEPT !.last = [run |-> EntryRun,
                                                outcome |-> "interrupted"]]
            /\ poll' = [poll EXCEPT ![p] = [NoPoll EXCEPT !.pc = "recorded"]]
       ELSE /\ poll' = [poll EXCEPT ![p] = NoPoll]
            /\ UNCHANGED mem
    /\ UNCHANGED <<kind, disk, owned, flag, alive, task, cancel, runs, crashes>>

PollSnapshot(p) ==
    /\ poll[p].pc = "recorded"
    /\ poll' = [poll EXCEPT ![p] = [NoPoll EXCEPT !.pc = "saving", !.snapshot = mem]]
    /\ UNCHANGED <<kind, mem, disk, owned, flag, alive, task, cancel, runs,
                   crashes>>

PollSave(p) ==
    /\ poll[p].pc = "saving"
    /\ disk' \in Written(poll[p].snapshot)
    /\ poll' = [poll EXCEPT ![p] = NoPoll]
    /\ UNCHANGED <<kind, mem, owned, flag, alive, task, cancel, runs, crashes>>

-----------------------------------------------------------------------------
(* scrub_cancel.                                                             *)

CancelRead(c) ==
    /\ kind = "scrub"
    /\ cancel[c] = "idle"
    /\ mem.running
    /\ cancel' = [cancel EXCEPT ![c] = "running"]
    /\ UNCHANGED <<kind, mem, disk, owned, flag, alive, task, poll, runs,
                   crashes>>

CancelFlag(c) ==
    /\ cancel[c] = "running"
    /\ flag' = TRUE
    /\ cancel' = [cancel EXCEPT ![c] = "flagged"]
    /\ UNCHANGED <<kind, mem, disk, owned, alive, task, poll, runs, crashes>>

\* pkill signals every child on this mount point; they end in ChildExits or
\* OrphanExits.
CancelKill(c) ==
    /\ cancel[c] = "flagged"
    /\ cancel' = [cancel EXCEPT ![c] = "idle"]
    /\ UNCHANGED <<kind, mem, disk, owned, flag, alive, task, poll, runs,
                   crashes>>

-----------------------------------------------------------------------------
\* The engine dies and FilesystemService::new loads the file; a write in
\* progress may leave it unreadable, which loads as no history.
Restart ==
    /\ crashes < MaxCrashes
    /\ crashes' = crashes + 1
    /\ disk' \in {disk} \cup (IF Writers # {} THEN {NeverRun} ELSE {})
    /\ mem' = disk'
    /\ owned' = FALSE /\ flag' = FALSE
    /\ task' = [h \in Handlers |-> NoTask]
    /\ poll' = [p \in Pollers |-> NoPoll]
    /\ cancel' = [c \in Cancels |-> "idle"]
    /\ UNCHANGED <<kind, alive, runs>>

-----------------------------------------------------------------------------
TaskSteps(h) ==
    \/ Stamp(h) \/ TaskSnapshot(h) \/ Spawn(h) \/ ChildExits(h) \/ Decide(h)
    \/ Record(h) \/ Finish(h) \/ Release(h)

PollSteps(p) ==
    \/ PollRead(p) \/ PollOwner(p) \/ PollPgrep(p) \/ PollRecord(p)
    \/ PollSnapshot(p) \/ PollSave(p)

Next ==
    \/ Restart
    \/ \E h \in Handlers : \/ StartCheck(h) \/ Reserve(h) \/ StartRefused(h)
                           \/ TaskSteps(h) \/ Dropped(h)
    \/ \E r \in 1 .. runs : OrphanExits(r)
    \/ \E p \in Pollers : PollSteps(p)
    \/ \E c \in Cancels : CancelRead(c) \/ CancelFlag(c) \/ CancelKill(c)

Spec == Init /\ [][Next]_vars

\* Tasks are scheduled, children end, and somebody keeps asking for the status:
\* the alert loop for scrubs, an open page for checks.
Fairness ==
    /\ \A h \in Handlers : WF_vars(TaskSteps(h))
    /\ WF_vars(\E r \in 1 .. runs : OrphanExits(r))
    /\ \A p \in Pollers : WF_vars(PollSteps(p))

LiveSpec == Spec /\ Fairness

-----------------------------------------------------------------------------
(* Properties                                                                *)

\* A reservation belongs to exactly one task: at no point do two calls of this
\* engine carry out the operation on the filesystem, also when calls overlap
\* before the reservation, are dropped, or follow a restart.
OneOwner ==
    /\ \A g, h \in Handlers : Holds(g) /\ Holds(h) => g = h
    /\ owned <=> \E h \in Handlers : Holds(h)

Restarts == crashes' # crashes

\* Only a run that nobody can still report is recorded as interrupted: it has
\* no task in this engine and its child is gone (should_record_interrupted_
\* operation, filesystem.rs:850-862).
InterruptedIsDead ==
    [][~Restarts /\ mem'.last.outcome = "interrupted" /\ mem'.last # mem.last =>
         /\ mem'.last.run \notin alive
         /\ \A h \in Handlers : task[h].run # mem'.last.run]_vars

\* A late poll never overwrites the result that the run's own task recorded.
CompletionKept ==
    [][~Restarts /\ mem'.last # mem.last /\ mem.last.run # 0 =>
         mem'.last.run # mem.last.run]_vars

\* A run that is shown as running is not shown so for ever, whatever restarts
\* and dropped calls do.
RunResolved ==
    \A r \in 1 .. MaxRuns :
       (mem.running /\ mem.run = r) ~> ~(mem.running /\ mem.run = r)
=============================================================================
