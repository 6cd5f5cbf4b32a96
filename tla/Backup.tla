------------------------------- MODULE Backup -------------------------------
(***************************************************************************)
(* The backup service: BackupService and its profiles                      *)
(* (engine/nasty-backup/src/lib.rs), the job registry and its monitors     *)
(* (jobs.rs), the bulk worker pool they share (nasty-common/priority.rs)   *)
(* and the profile editor of the WebUI that saves over them.               *)
(*                                                                         *)
(* A job is a registry entry and a worker task.  Workers read a profile,   *)
(* let go of the profile list while they work on the repository, and write *)
(* their outcome into the list afterwards, while operators edit and delete *)
(* the same profiles.                                                      *)
(***************************************************************************)
EXTENDS Naturals, FiniteSets

CONSTANTS
    Profiles,     \* profile ids
    Defs,         \* backup definitions: sources, target and secrets
    Repos,        \* repositories
    RepoOf,       \* the repository a definition writes to
    Jobs,         \* slots of the registry
    Clients,      \* browsers with the Backups page open
    Permits,      \* MAX_BULK_WORKERS
    Faults,       \* the failures the environment may inject
    Nobody

\* before, after: save_profiles_to fails before the rename, or after it, when
\* the new list is already in force; bulk: the repository work fails; secrets:
\* a secret cannot be decrypted; panic: a worker task dies; crash: the engine
\* is restarted.
FaultKinds == {"before", "after", "bulk", "secrets", "panic", "crash"}

ASSUME BackupAssumption ==
    /\ RepoOf \in [Defs -> Repos]
    /\ Defs # {}
    /\ Permits \in Nat \ {0}
    /\ Faults \subseteq FaultKinds
    /\ Nobody \notin Profiles

VARIABLES
    profiles,     \* the profile list; memory and disk change together
    running,      \* BackupService.running, what backup.status reports
    job,          \* state of each registry entry
    worker,       \* the task of each entry: program counter and locals
    page,         \* each browser: the profile it edits and the copy it shows
    created,      \* external: repositories that exist
    staleSave     \* history: profiles saved from a form that was opened on, or
                  \* shows, another definition than the one in force

vars == <<profiles, running, job, worker, page, created, staleSave>>

Kinds == {"init", "run", "check", "restore"}

AnyDef == CHOOSE d \in Defs : TRUE

\* result is the outcome in last_run, of the definition that run backed up
\* (the code does not record it).
Profile == [status : {"none", "present", "deleted"}, def : Defs, init : BOOLEAN,
            result : {"none", "ok", "failed"}, of : Defs]

NoProfile == [status |-> "none", def |-> AnyDef, init |-> FALSE,
              result |-> "none", of |-> AnyDef]

WorkPcs == {"init_queue", "init_bulk", "queue", "bulk", "prune_queue", "prune_bulk"}
RunPcs == {"load", "marker"}
EndPcs == {"unmark", "record", "finish"}
LivePcs == {"spawned", "init_load", "init_record", "exec_load"}
             \cup WorkPcs \cup RunPcs \cup EndPcs
BulkPcs == {"init_bulk", "bulk", "prune_bulk"}

\* def is executed_profile, initDef the copy init_repo works on, ok the outcome.
Worker == [pc : {"none", "panicked"} \cup LivePcs, kind : Kinds,
           profile : Profiles \cup {Nobody}, def : Defs, initDef : Defs,
           ok : BOOLEAN]

NoWorker == [pc |-> "none", kind |-> "run", profile |-> Nobody, def |-> AnyDef,
             initDef |-> AnyDef, ok |-> FALSE]

Page == [pc : {"closed", "open", "saving"}, profile : Profiles \cup {Nobody},
         orig : Defs, shown : Profile, payload : Profile]

NoPage == [pc |-> "closed", profile |-> Nobody, orig |-> AnyDef,
           shown |-> NoProfile, payload |-> NoProfile]

JobStates == {"unused", "pending", "running", "succeeded", "failed"}

TypeOK ==
    /\ profiles \in [Profiles -> Profile]
    /\ running \in Profiles \cup {Nobody}
    /\ job \in [Jobs -> JobStates]
    /\ worker \in [Jobs -> Worker]
    /\ page \in [Clients -> Page]
    /\ created \subseteq Repos
    /\ staleSave \subseteq Profiles

Init ==
    /\ profiles = [p \in Profiles |-> NoProfile]
    /\ running = Nobody
    /\ job = [j \in Jobs |-> "unused"]
    /\ worker = [j \in Jobs |-> NoWorker]
    /\ page = [c \in Clients |-> NoPage]
    /\ created = {}
    /\ staleSave = {}

Present(p) == profiles[p].status = "present"

\* persist_profiles: in force on success and on a failure after the rename.
SaveOutcomes == {"ok"} \cup (Faults \cap {"before", "after"})

Put(p, value, outcome) ==
    profiles' = IF outcome = "before" THEN profiles
                ELSE [profiles EXCEPT ![p] = value]

-----------------------------------------------------------------------------
(* The profile list: create, update, delete.                                 *)

\* The id is new, so a deleted profile never comes back under its old one.
CreateProfile(p) ==
    /\ profiles[p].status = "none"
    /\ \E d \in Defs, outcome \in SaveOutcomes :
          Put(p, [NoProfile EXCEPT !.status = "present", !.def = d, !.of = d],
              outcome)
    /\ UNCHANGED <<running, job, worker, page, created, staleSave>>

DeleteProfile(p) ==
    /\ Present(p)
    /\ \E outcome \in SaveOutcomes :
          Put(p, [NoProfile EXCEPT !.status = "deleted"], outcome)
    /\ UNCHANGED <<running, job, worker, page, created, staleSave>>

\* The edit form remembers the target it was opened on (editOriginalTargetJson).
OpenEdit(c) ==
    /\ page[c].pc = "closed"
    /\ \E p \in Profiles :
          /\ Present(p)
          /\ page' = [page EXCEPT ![c] =
                        [NoPage EXCEPT !.pc = "open", !.profile = p,
                                       !.orig = profiles[p].def,
                                       !.shown = profiles[p]]]
    /\ UNCHANGED <<profiles, running, job, worker, created, staleSave>>

\* The page reloads its list while the form is open.
Refresh(c) ==
    /\ page[c].pc = "open"
    /\ Present(page[c].profile)
    /\ page' = [page EXCEPT ![c].shown = profiles[page[c].profile]]
    /\ UNCHANGED <<profiles, running, job, worker, created, staleSave>>

CancelEdit(c) ==
    /\ page[c].pc = "open"
    /\ page' = [page EXCEPT ![c] = NoPage]
    /\ UNCHANGED <<profiles, running, job, worker, created, staleSave>>

\* saveEdit: the shown profile with the edited definition; another target
\* resets repo_initialized.
Edited(c, d) ==
    [page[c].shown EXCEPT !.def = d,
        !.init = @ /\ RepoOf[d] = RepoOf[page[c].orig]]

\* invalidate_last_run_if_definition_changed
Invalidated_Never(update, existing) == update

Invalidated_Tagged(update, existing) ==
    IF update.def = existing.def THEN update
    ELSE [update EXCEPT !.result = "stale"]

Invalidated(update, existing) ==
    IF update.def = existing.def THEN update
    ELSE [update EXCEPT !.result = "none", !.of = update.def]

\* The first half of update_profile works on a copy of the existing profile.
UpdateRead(c) ==
    LET p == page[c].profile IN
    /\ page[c].pc = "open"
    /\ Present(p)
    /\ \E d \in Defs :
          page' = [page EXCEPT ![c].pc = "saving",
                               ![c].payload = Invalidated(Edited(c, d), profiles[p])]
    /\ staleSave' = IF {page[c].shown.def, page[c].orig} = {profiles[p].def}
                    THEN staleSave ELSE staleSave \cup {p}
    /\ UNCHANGED <<profiles, running, job, worker, created>>

UpdateCommit_Upserts(c) ==
    /\ page[c].pc = "saving"
    /\ Put(page[c].profile, page[c].payload, "ok")
    /\ page' = [page EXCEPT ![c] = NoPage]
    /\ UNCHANGED <<running, job, worker, created, staleSave>>

\* Its second half replaces the profile.  After an error the form stays open
\* with the copy it had.
UpdateCommit(c) ==
    LET p == page[c].profile IN
    /\ page[c].pc = "saving"
    /\ IF Present(p)
       THEN \E outcome \in SaveOutcomes :
              /\ Put(p, page[c].payload, outcome)
              /\ page' = [page EXCEPT ![c] =
                            IF outcome = "ok" THEN NoPage
                            ELSE [@ EXCEPT !.pc = "open", !.payload = NoProfile]]
       ELSE /\ page' = [page EXCEPT ![c].pc = "open", ![c].payload = NoProfile]
            /\ UNCHANGED profiles
    /\ UNCHANGED <<running, job, worker, created, staleSave>>

-----------------------------------------------------------------------------
(* The job registry.                                                         *)

Terminal(j) == job[j] \in {"succeeded", "failed"}
Active(j) == job[j] \in {"pending", "running"}

\* JobRegistry::start refuses a second job of the same profile.
Collides_OwnKind(p, k) ==
    \E i \in Jobs : Active(i) /\ worker[i].profile = p /\ worker[i].kind = k

Collides(p, k) == \E i \in Jobs : Active(i) /\ worker[i].profile = p

\* backup.repo.init, backup.run, backup.repo.check, backup.restore and the
\* scheduler.  The profile existed when the caller looked; it may be gone.
StartJob(j, p, k) ==
    /\ job[j] = "unused"
    /\ profiles[p].status # "none"
    /\ ~Collides(p, k)
    /\ job' = [job EXCEPT ![j] = "pending"]
    /\ worker' = [worker EXCEPT ![j] =
                    [NoWorker EXCEPT !.pc = "spawned", !.kind = k, !.profile = p]]
    /\ UNCHANGED <<profiles, running, page, created, staleSave>>

\* gc_locked forgets finished jobs; the slot can be used again.
Gc(j) ==
    /\ Terminal(j)
    /\ job' = [job EXCEPT ![j] = "unused"]
    /\ worker' = [worker EXCEPT ![j] = NoWorker]
    /\ UNCHANGED <<profiles, running, page, created, staleSave>>

-----------------------------------------------------------------------------
(* Workers.                                                                  *)

Step(j, pc) == worker' = [worker EXCEPT ![j].pc = pc]
StepDef(j, pc, d) == worker' = [worker EXCEPT ![j].pc = pc, ![j].def = d]
StepOk(j, pc, ok) == worker' = [worker EXCEPT ![j].pc = pc, ![j].ok = ok]

\* Where the work of a job continues after an error: a run still clears its
\* marker and records the failure, the other kinds report it.
AfterError(j) == IF worker[j].kind = "run" THEN "unmark" ELSE "finish"

FirstPc(kind) ==
    CASE kind = "run" -> "load"
      [] kind = "init" -> "init_load"
      [] OTHER -> "exec_load"

MarkRunning(j) ==
    /\ worker[j].pc = "spawned"
    /\ job' = [job EXCEPT ![j] = "running"]
    /\ Step(j, FirstPc(worker[j].kind))
    /\ UNCHANGED <<profiles, running, page, created, staleSave>>

\* run_backup: the profile as it is when the run begins; ok carries
\* repo_initialized to the next step.
RunLoad(j) ==
    /\ worker[j].pc = "load"
    /\ IF Present(worker[j].profile)
       THEN worker' = [worker EXCEPT ![j].pc = "marker",
                          ![j].def = profiles[worker[j].profile].def,
                          ![j].ok = profiles[worker[j].profile].init]
       ELSE StepOk(j, "finish", FALSE)
    /\ UNCHANGED <<profiles, running, job, page, created, staleSave>>

SetMarker(j) ==
    /\ worker[j].pc = "marker"
    /\ running' = worker[j].profile
    /\ StepOk(j, IF worker[j].ok THEN "exec_load" ELSE "init_load", FALSE)
    /\ UNCHANGED <<profiles, job, page, created, staleSave>>

\* init_repo and the reload in run_backup copy the profile and resolve its
\* secrets.  A run whose initialisation fails is recorded under the definition
\* it began with; one whose reload fails on secrets, under the reloaded one.
InitLoad(j) ==
    LET p == worker[j].profile IN
    /\ worker[j].pc = "init_load"
    /\ \/ /\ Present(p)
          /\ worker' = [worker EXCEPT ![j].pc = "init_queue",
                                     ![j].initDef = profiles[p].def]
       \/ /\ ~Present(p) \/ "secrets" \in Faults
          /\ StepOk(j, AfterError(j), FALSE)
    /\ UNCHANGED <<profiles, running, job, page, created, staleSave>>

ExecLoad(j) ==
    LET p == worker[j].profile IN
    /\ worker[j].pc = "exec_load"
    /\ \/ Present(p) /\ StepDef(j, "queue", profiles[p].def)
       \/ /\ Present(p)
          /\ "secrets" \in Faults
          /\ StepDef(j, AfterError(j), profiles[p].def)
       \/ ~Present(p) /\ StepOk(j, AfterError(j), FALSE)
    /\ UNCHANGED <<profiles, running, job, page, created, staleSave>>

\* spawn_bulk: one permit for as long as the thread works.
BulkAcquire(j) ==
    /\ worker[j].pc \in {"init_queue", "queue", "prune_queue"}
    /\ Cardinality({i \in Jobs : worker[i].pc \in BulkPcs}) < Permits
    /\ Step(j, CASE worker[j].pc = "init_queue" -> "init_bulk"
                 [] worker[j].pc = "queue" -> "bulk"
                 [] OTHER -> "prune_bulk")
    /\ UNCHANGED <<profiles, running, job, page, created, staleSave>>

\* initialize_or_open_repo
InitBulk(j) ==
    /\ worker[j].pc = "init_bulk"
    /\ \/ /\ created' = created \cup {RepoOf[worker[j].initDef]}
          /\ Step(j, "init_record")
       \/ /\ "bulk" \in Faults
          /\ StepOk(j, AfterError(j), FALSE)
          /\ UNCHANGED created
    /\ UNCHANGED <<profiles, running, job, page, staleSave>>

\* The profile may have been edited or deleted meanwhile.
Unchanged_SameId(j, d) == Present(worker[j].profile)

Unchanged(j, d) ==
    /\ Present(worker[j].profile)
    /\ profiles[worker[j].profile].def = d

InitRecord(j) ==
    LET p == worker[j].profile IN
    /\ worker[j].pc = "init_record"
    /\ IF Unchanged(j, worker[j].initDef)
       THEN \E outcome \in SaveOutcomes :
              /\ Put(p, [profiles[p] EXCEPT !.init = TRUE], outcome)
              /\ IF outcome = "ok"
                 THEN IF worker[j].kind = "run" THEN Step(j, "exec_load")
                      ELSE StepOk(j, "finish", TRUE)
                 ELSE StepOk(j, AfterError(j), FALSE)
       ELSE /\ StepOk(j, AfterError(j), FALSE)
            /\ UNCHANGED profiles
    /\ UNCHANGED <<running, job, page, created, staleSave>>

\* The repository work of a run, a check or a restore; it cannot succeed on a
\* repository that does not exist.
Bulk(j) ==
    /\ worker[j].pc = "bulk"
    /\ \/ /\ RepoOf[worker[j].def] \in created
          /\ StepOk(j, AfterError(j), TRUE)
       \/ /\ "bulk" \in Faults \/ RepoOf[worker[j].def] \notin created
          /\ StepOk(j, AfterError(j), FALSE)
    /\ UNCHANGED <<profiles, running, job, page, created, staleSave>>

ClearMarker(j) ==
    /\ worker[j].pc = "unmark"
    /\ running' = Nobody
    /\ Step(j, "record")
    /\ UNCHANGED <<profiles, job, page, created, staleSave>>

\* Record last_run only if the profile still is what was backed up; prune only
\* after a recorded success.
RecordRun(j) ==
    LET p == worker[j].profile
        result == IF worker[j].ok THEN "ok" ELSE "failed"
    IN
    /\ worker[j].pc = "record"
    /\ IF Unchanged(j, worker[j].def)
       THEN \E outcome \in SaveOutcomes :
              /\ Put(p, [profiles[p] EXCEPT !.result = result, !.of = worker[j].def],
                     outcome)
              /\ IF outcome = "ok"
                 THEN Step(j, IF worker[j].ok THEN "prune_queue" ELSE "finish")
                 ELSE StepOk(j, "finish", FALSE)
       ELSE /\ Step(j, "finish")
            /\ UNCHANGED profiles
    /\ UNCHANGED <<running, job, page, created, staleSave>>

\* prune: whatever it returns, the run has succeeded.
Prune(j) ==
    /\ worker[j].pc = "prune_bulk"
    /\ Step(j, "finish")
    /\ UNCHANGED <<profiles, running, job, page, created, staleSave>>

\* mark_succeeded or mark_failed; the monitor then finds a terminal entry.
Finish(j) ==
    /\ worker[j].pc = "finish"
    /\ job' = [job EXCEPT ![j] = IF worker[j].ok THEN "succeeded" ELSE "failed"]
    /\ worker' = [worker EXCEPT ![j] = NoWorker]
    /\ UNCHANGED <<profiles, running, page, created, staleSave>>

\* The task dies.  A panic of the bulk thread itself is only an error there.
Panic(j) ==
    /\ "panic" \in Faults
    /\ worker[j].pc \in LivePcs \ WorkPcs
    /\ Step(j, "panicked")
    /\ UNCHANGED <<profiles, running, job, page, created, staleSave>>

RecoverAbandoned_KeepsMarker(j) ==
    /\ worker[j].pc = "panicked"
    /\ job' = [job EXCEPT ![j] = "failed"]
    /\ worker' = [worker EXCEPT ![j] = NoWorker]
    /\ UNCHANGED <<profiles, running, page, created, staleSave>>

RecoverAbandoned_Never(j) == FALSE /\ UNCHANGED vars

\* monitor_task and recover_abandoned, under the registry's write lock.
RecoverAbandoned(j) ==
    /\ worker[j].pc = "panicked"
    /\ running' = IF running = worker[j].profile THEN Nobody ELSE running
    /\ job' = [job EXCEPT ![j] = "failed"]
    /\ worker' = [worker EXCEPT ![j] = NoWorker]
    /\ UNCHANGED <<profiles, page, created, staleSave>>

\* A restart loses the registry, the tasks and the marker; a save in flight
\* ends in an error for the browser.
Crash ==
    /\ "crash" \in Faults
    /\ running' = Nobody
    /\ job' = [j \in Jobs |-> "unused"]
    /\ worker' = [j \in Jobs |-> NoWorker]
    /\ page' = [c \in Clients |->
                  IF page[c].pc = "saving"
                  THEN [page[c] EXCEPT !.pc = "open", !.payload = NoProfile]
                  ELSE page[c]]
    /\ UNCHANGED <<profiles, created, staleSave>>

-----------------------------------------------------------------------------
WorkerStep(j) ==
    \/ MarkRunning(j) \/ RunLoad(j) \/ SetMarker(j) \/ InitLoad(j)
    \/ ExecLoad(j) \/ InitBulk(j) \/ InitRecord(j) \/ Bulk(j)
    \/ ClearMarker(j) \/ RecordRun(j) \/ Prune(j) \/ Finish(j)

Next ==
    \/ \E p \in Profiles : CreateProfile(p) \/ DeleteProfile(p)
    \/ \E c \in Clients : OpenEdit(c) \/ Refresh(c) \/ CancelEdit(c)
                            \/ UpdateRead(c) \/ UpdateCommit(c)
    \/ \E j \in Jobs, p \in Profiles, k \in Kinds : StartJob(j, p, k)
    \/ \E j \in Jobs : WorkerStep(j) \/ BulkAcquire(j) \/ Panic(j)
                         \/ RecoverAbandoned(j) \/ Gc(j)
    \/ Crash

Spec == Init /\ [][Next]_vars

\* Tasks are polled again and bulk work returns; the pool's semaphore is first
\* come first served.
Fairness ==
    \A j \in Jobs : /\ WF_vars(WorkerStep(j))
                    /\ SF_vars(BulkAcquire(j))
                    /\ WF_vars(RecoverAbandoned(j))

LiveSpec == Spec /\ Fairness

-----------------------------------------------------------------------------
(* Properties                                                                *)

\* Two jobs never work for the same profile at once, so no backup, restore,
\* check or initialisation of a profile overlaps another.
NoOverlap ==
    \A i, j \in Jobs :
        worker[i].pc # "none" /\ worker[j].pc # "none"
          /\ worker[i].profile = worker[j].profile => i = j

\* The running marker never outlives its run: if backup.status names a profile,
\* a backup of that profile is in progress.
MarkerHonest ==
    running # Nobody =>
        \E j \in Jobs : Active(j) /\ worker[j].kind = "run" /\ worker[j].profile = running

\* A profile marked initialised has a repository at its present target, however
\* edits and initialisations interleave.
InitFlagHonest ==
    \A p \in Profiles \ staleSave :
        Present(p) /\ profiles[p].init => RepoOf[profiles[p].def] \in created

\* A recorded success is a backup of the present definition: edits made while
\* a run was working are never covered by its result.
CoverageHonest ==
    \A p \in Profiles \ staleSave :
        Present(p) /\ profiles[p].result = "ok" => profiles[p].of = profiles[p].def

\* A deleted profile stays deleted: no late result and no late save revives it.
NoResurrection ==
    [][\A p \in Profiles :
         profiles[p].status = "deleted" => profiles'[p].status = "deleted"]_vars

\* Every accepted job ends: it is reported succeeded or failed, also when its
\* task panics or the pool is busy (or the engine restarts and forgets it).
JobsEnd == \A j \in Jobs : Active(j) ~> ~Active(j)
=============================================================================
