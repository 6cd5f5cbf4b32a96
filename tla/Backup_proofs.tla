---------------------------- MODULE Backup_proofs ----------------------------
(***************************************************************************)
(* The safety properties of Backup for every value of its constants: any   *)
(* number of profiles, definitions, jobs, browsers and permits, and any    *)
(* set of faults.                                                          *)
(***************************************************************************)
EXTENDS Backup, TLAPS

\* A registry entry is active exactly while its task is there, and the task knows
\* its profile; so does an open form.  Only a run begins like a run.
JobInv ==
    /\ \A j \in Jobs : /\ Active(j) <=> worker[j].pc # "none"
                       /\ worker[j].pc # "none" => worker[j].profile \in Profiles
                       /\ worker[j].pc \in RunPcs => worker[j].kind = "run"
    /\ \A c \in Clients : page[c].pc # "closed" => page[c].profile \in Profiles

\* Program points of a run between its setting of the marker and its clearing.
MarkedPcs == {"init_load", "init_queue", "init_bulk", "init_record", "exec_load",
              "queue", "bulk", "unmark", "panicked"}

\* The marker names a run that has yet to clear it, or whose monitor has.
MarkerInv ==
    running # Nobody =>
        \E j \in Jobs : /\ worker[j].pc \in MarkedPcs
                        /\ worker[j].kind = "run"
                        /\ worker[j].profile = running

\* What a profile says of itself is true: an initialised one has its repository,
\* and a success is one of its own definition.
Honest(profile) ==
    /\ profile.init => RepoOf[profile.def] \in created
    /\ profile.result = "ok" => profile.of = profile.def

\* It is true of the stored profiles, of the copies that forms show and of those
\* on their way to be saved, unless the profile was saved from a stale form; and
\* an initialisation that is about to be recorded has created its repository.
HonestInv ==
    /\ \A p \in Profiles \ staleSave : Honest(profiles[p])
    /\ \A c \in Clients : page[c].pc # "closed" /\ page[c].profile \notin staleSave =>
          Honest(page[c].shown) /\ Honest(page[c].payload)
    /\ \A j \in Jobs : worker[j].pc = "init_record" => RepoOf[worker[j].initDef] \in created

Inv == JobInv /\ NoOverlap /\ MarkerInv /\ HonestInv

IInv == TypeOK /\ Inv

-----------------------------------------------------------------------------
USE BackupAssumption
USE DEF Kinds, WorkPcs, RunPcs, EndPcs, LivePcs, BulkPcs, JobStates

\* There is a definition to start from.
LEMMA AnyDefType == AnyDef \in Defs
  BY DEF AnyDef

\* The initial records have their types, and claim nothing.
LEMMA NoneFacts ==
  /\ NoProfile \in Profile /\ NoProfile.status = "none"
  /\ ~ NoProfile.init /\ NoProfile.result = "none"
  /\ NoWorker \in Worker /\ NoWorker.pc = "none"
  /\ NoPage \in Page /\ NoPage.pc = "closed"
<1>1. NoProfile \in Profile /\ NoProfile.status = "none" /\ ~ NoProfile.init
      /\ NoProfile.result = "none"
  BY AnyDefType DEF NoProfile, Profile
<1>2. NoWorker \in Worker /\ NoWorker.pc = "none"
  BY AnyDefType DEF NoWorker, Worker
<1>3. NoPage \in Page /\ NoPage.pc = "closed"
  BY <1>1, AnyDefType DEF NoPage, Page
<1> QED
  BY <1>1, <1>2, <1>3

\* A profile that claims nothing is honest.
LEMMA NothingClaimed ==
  ASSUME NEW x, ~ x.init, x.result # "ok" PROVE Honest(x)
  BY DEF Honest

\* What a save does to the list.
LEMMA PutFacts ==
  ASSUME TypeOK, NEW p \in Profiles, NEW x \in Profile, NEW outcome, Put(p, x, outcome)
  PROVE  /\ profiles' \in [Profiles -> Profile]
         /\ \A q \in Profiles \ {p} : profiles'[q] = profiles[q]
         /\ profiles'[p] \in {profiles[p], x}
  BY DEF TypeOK, Put

\* A task moves on: it keeps its kind and its profile.
Moved(j) ==
    /\ worker' \in [Jobs -> Worker]
    /\ \A i \in Jobs \ {j} : worker'[i] = worker[i]
    /\ worker'[j].kind = worker[j].kind
    /\ worker'[j].profile = worker[j].profile
    /\ worker'[j].initDef \in Defs

\* A step that sets one worker.
LEMMA WorkerFacts ==
  ASSUME TypeOK, NEW j \in Jobs, NEW w \in Worker, worker' = [worker EXCEPT ![j] = w]
  PROVE  /\ worker' \in [Jobs -> Worker] /\ worker'[j] = w
         /\ \A i \in Jobs \ {j} : worker'[i] = worker[i]
  BY DEF TypeOK

\* Step changes the program counter.
LEMMA StepFacts ==
  ASSUME TypeOK, NEW j \in Jobs, NEW pc \in LivePcs \cup {"panicked"}, Step(j, pc)
  PROVE  Moved(j) /\ worker'[j].pc = pc /\ worker'[j].initDef = worker[j].initDef
<1> DEFINE w == [worker[j] EXCEPT !.pc = pc]
<1>1. worker[j] \in Worker /\ worker' = [worker EXCEPT ![j] = w]
  BY DEF TypeOK, Step
<1>2. /\ w \in Worker /\ w.pc = pc /\ w.kind = worker[j].kind
      /\ w.profile = worker[j].profile /\ w.initDef = worker[j].initDef
  BY <1>1 DEF Worker
<1>3. w.initDef \in Defs
  BY <1>2 DEF Worker
<1> HIDE DEF w
<1> QED
  BY <1>1, <1>2, <1>3, WorkerFacts DEF Moved

\* StepDef changes the executed definition too.
LEMMA StepDefFacts ==
  ASSUME TypeOK, NEW j \in Jobs, NEW pc \in LivePcs, NEW d \in Defs, StepDef(j, pc, d)
  PROVE  Moved(j) /\ worker'[j].pc = pc
<1> DEFINE w == [worker[j] EXCEPT !.pc = pc, !.def = d]
<1>1. worker[j] \in Worker /\ worker' = [worker EXCEPT ![j] = w]
  BY DEF TypeOK, StepDef
<1>2. /\ w \in Worker /\ w.pc = pc /\ w.kind = worker[j].kind
      /\ w.profile = worker[j].profile
  BY <1>1 DEF Worker
<1>3. w.initDef \in Defs
  BY <1>2 DEF Worker
<1> HIDE DEF w
<1> QED
  BY <1>1, <1>2, <1>3, WorkerFacts DEF Moved

\* StepOk changes the outcome too.
LEMMA StepOkFacts ==
  ASSUME TypeOK, NEW j \in Jobs, NEW pc \in LivePcs, NEW ok \in BOOLEAN, StepOk(j, pc, ok)
  PROVE  Moved(j) /\ worker'[j].pc = pc
<1> DEFINE w == [worker[j] EXCEPT !.pc = pc, !.ok = ok]
<1>1. worker[j] \in Worker /\ worker' = [worker EXCEPT ![j] = w]
  BY DEF TypeOK, StepOk
<1>2. /\ w \in Worker /\ w.pc = pc /\ w.kind = worker[j].kind
      /\ w.profile = worker[j].profile
  BY <1>1 DEF Worker
<1>3. w.initDef \in Defs
  BY <1>2 DEF Worker
<1> HIDE DEF w
<1> QED
  BY <1>1, <1>2, <1>3, WorkerFacts DEF Moved

\* Where a task goes after an error.
LEMMA AfterErrorFacts ==
  ASSUME NEW j
  PROVE  /\ AfterError(j) \in {"unmark", "finish"}
         /\ worker[j].kind = "run" => AfterError(j) = "unmark"
  BY DEF AfterError

\* The fields of a worker have their types.
LEMMA WorkerFields ==
  ASSUME TypeOK, NEW j \in Jobs
  PROVE  /\ worker[j].def \in Defs /\ worker[j].initDef \in Defs
         /\ worker[j].kind \in Kinds /\ worker[j].ok \in BOOLEAN
         /\ worker[j].profile \in Profiles \cup {Nobody}
  BY DEF TypeOK, Worker

\* A task that moves on keeps its place in the registry.
LEMMA Moved_Job ==
  ASSUME IInv, NEW j \in Jobs, Moved(j), worker[j].pc # "none", worker'[j].pc # "none",
         UNCHANGED page, worker'[j].pc \in RunPcs => worker[j].kind = "run",
         UNCHANGED job \/ job' = [job EXCEPT ![j] = "running"]
  PROVE  JobInv' /\ NoOverlap' /\ job' \in [Jobs -> JobStates]
<1>1. Active(j) /\ Active(j)'
  BY DEF IInv, Inv, TypeOK, JobInv, Active
<1>2. \A i \in Jobs \ {j} : Active(i)' <=> Active(i)
  BY DEF IInv, TypeOK, Active
<1>3. JobInv'
  BY <1>1, <1>2 DEF IInv, Inv, JobInv, Moved
<1>4. NoOverlap'
  BY DEF IInv, Inv, NoOverlap, Moved
<1> QED
  BY <1>3, <1>4 DEF IInv, TypeOK

\* A run that moves on between the setting and the clearing of the marker, and
\* any other task, keeps the marker honest.
LEMMA Moved_Marker ==
  ASSUME IInv, NEW j \in Jobs, Moved(j), UNCHANGED running,
         worker[j].kind = "run" /\ worker[j].pc \in MarkedPcs => worker'[j].pc \in MarkedPcs
  PROVE  MarkerInv'
  BY DEF IInv, Inv, MarkerInv, Moved

\* A step that leaves the profiles and the forms alone.
LEMMA Moved_Honest ==
  ASSUME IInv, NEW j \in Jobs, Moved(j), UNCHANGED <<profiles, page, staleSave>>,
         created \subseteq created',
         worker'[j].pc = "init_record" => RepoOf[worker'[j].initDef] \in created'
  PROVE  HonestInv'
<1>1. \A x : Honest(x) => Honest(x)'
  BY DEF Honest
<1> QED
  BY <1>1 DEF IInv, Inv, HonestInv, Moved

\* The common shape of a step of a task that only moves on.
LEMMA Moved_IInv ==
  ASSUME IInv, NEW j \in Jobs, Moved(j), worker[j].pc # "none", worker'[j].pc # "none",
         UNCHANGED <<profiles, running, page, created, staleSave>>,
         UNCHANGED job \/ job' = [job EXCEPT ![j] = "running"],
         worker'[j].pc # "init_record", worker'[j].pc \in RunPcs => worker[j].kind = "run",
         worker[j].kind = "run" /\ worker[j].pc \in MarkedPcs => worker'[j].pc \in MarkedPcs
  PROVE  IInv'
<1>1. JobInv' /\ NoOverlap' /\ job' \in [Jobs -> JobStates]
  BY Moved_Job
<1>2. MarkerInv' /\ HonestInv'
  BY Moved_Marker, Moved_Honest
<1>3. TypeOK'
  BY <1>1 DEF IInv, TypeOK, Moved
<1> QED
  BY <1>1, <1>2, <1>3 DEF IInv, Inv

-----------------------------------------------------------------------------
(* Tasks.                                                                    *)

\* The steps of a task that change nothing but the task, and the first one,
\* which marks the entry running.
LEMMA Quiet_IInv ==
  ASSUME IInv, NEW j \in Jobs,
         \/ MarkRunning(j) \/ RunLoad(j) \/ InitLoad(j) \/ ExecLoad(j)
         \/ BulkAcquire(j) \/ Bulk(j) \/ Prune(j) \/ Panic(j)
  PROVE  IInv'
<1> DEFINE p == worker[j].profile
<1>0. TypeOK /\ (worker[j].pc # "none" => p \in Profiles /\ profiles[p] \in Profile)
  BY DEF IInv, Inv, JobInv, TypeOK
<1>1. CASE MarkRunning(j)
  <2>1. /\ FirstPc(worker[j].kind) \in {"load", "init_load", "exec_load"}
        /\ FirstPc(worker[j].kind) = "load" => worker[j].kind = "run"
    BY DEF FirstPc
  <2>2. Moved(j) /\ worker'[j].pc = FirstPc(worker[j].kind)
    BY <1>0, <1>1, <2>1, StepFacts DEF MarkRunning
  <2> QED
    BY <1>1, <2>1, <2>2, Moved_IInv DEF MarkRunning, MarkedPcs
<1>2. CASE RunLoad(j)
  <2>1. CASE StepOk(j, "finish", FALSE)
    <3>1. Moved(j) /\ worker'[j].pc = "finish"
      BY <1>0, <2>1, StepOkFacts
    <3> QED
      BY <1>2, <3>1, Moved_IInv DEF RunLoad, MarkedPcs
  <2>2. CASE worker' = [worker EXCEPT ![j].pc = "marker", ![j].def = profiles[p].def,
                                      ![j].ok = profiles[p].init]
    <3> DEFINE w == [worker[j] EXCEPT !.pc = "marker", !.def = profiles[p].def,
                                      !.ok = profiles[p].init]
    <3>1. worker[j] \in Worker /\ worker' = [worker EXCEPT ![j] = w]
      BY <1>0, <2>2 DEF TypeOK
    <3>2. profiles[p].def \in Defs /\ profiles[p].init \in BOOLEAN
      BY <1>0, <1>2 DEF RunLoad, Profile
    <3>3. /\ w \in Worker /\ w.pc = "marker" /\ w.kind = worker[j].kind
          /\ w.profile = worker[j].profile
      BY <3>1, <3>2 DEF Worker
    <3>4. w.initDef \in Defs
      BY <3>3 DEF Worker
    <3> HIDE DEF w
    <3>5. Moved(j) /\ worker'[j].pc = "marker"
      BY <1>0, <3>1, <3>3, <3>4, WorkerFacts DEF Moved
    <3>6. worker[j].kind = "run"
      BY <1>2 DEF RunLoad, IInv, Inv, JobInv
    <3> QED
      BY <1>2, <3>5, <3>6, Moved_IInv DEF RunLoad, MarkedPcs
  <2> QED
    BY <1>2, <2>1, <2>2 DEF RunLoad
<1>3. CASE InitLoad(j)
  <2>1. CASE StepOk(j, AfterError(j), FALSE)
    <3>1. Moved(j) /\ worker'[j].pc = AfterError(j)
      BY <1>0, <2>1, StepOkFacts, AfterErrorFacts
    <3> QED
      BY <1>3, <3>1, Moved_IInv, AfterErrorFacts DEF InitLoad, MarkedPcs
  <2>2. CASE worker' = [worker EXCEPT ![j].pc = "init_queue",
                                      ![j].initDef = profiles[p].def]
    <3> DEFINE w == [worker[j] EXCEPT !.pc = "init_queue", !.initDef = profiles[p].def]
    <3>1. worker[j] \in Worker /\ worker' = [worker EXCEPT ![j] = w]
      BY <1>0, <2>2 DEF TypeOK
    <3>2. profiles[p].def \in Defs
      BY <1>0, <1>3 DEF InitLoad, Profile
    <3>3. /\ w \in Worker /\ w.pc = "init_queue" /\ w.kind = worker[j].kind
          /\ w.profile = worker[j].profile /\ w.initDef \in Defs
      BY <3>1, <3>2 DEF Worker
    <3> HIDE DEF w
    <3>4. Moved(j) /\ worker'[j].pc = "init_queue"
      BY <1>0, <3>1, <3>3, WorkerFacts DEF Moved
    <3> QED
      BY <1>3, <3>4, Moved_IInv DEF InitLoad, MarkedPcs
  <2> QED
    BY <1>3, <2>1, <2>2 DEF InitLoad
<1>4. CASE ExecLoad(j)
  <2>1. CASE StepOk(j, AfterError(j), FALSE)
    <3>1. Moved(j) /\ worker'[j].pc = AfterError(j)
      BY <1>0, <2>1, StepOkFacts, AfterErrorFacts
    <3> QED
      BY <1>4, <3>1, Moved_IInv, AfterErrorFacts DEF ExecLoad, MarkedPcs
  <2>2. CASE \/ StepDef(j, "queue", profiles[p].def)
             \/ StepDef(j, AfterError(j), profiles[p].def)
    <3>1. profiles[p].def \in Defs
      BY <1>0, <1>4 DEF ExecLoad, Profile
    <3>2. Moved(j) /\ worker'[j].pc \in {"queue", AfterError(j)}
      BY <1>0, <2>2, <3>1, StepDefFacts, AfterErrorFacts
    <3> QED
      BY <1>4, <3>2, Moved_IInv, AfterErrorFacts DEF ExecLoad, MarkedPcs
  <2> QED
    BY <1>4, <2>1, <2>2 DEF ExecLoad
<1>5. CASE BulkAcquire(j)
  <2> DEFINE pc == CASE worker[j].pc = "init_queue" -> "init_bulk"
                     [] worker[j].pc = "queue" -> "bulk"
                     [] OTHER -> "prune_bulk"
  <2>1. Step(j, pc) /\ pc \in {"init_bulk", "bulk", "prune_bulk"}
        /\ (worker[j].pc \in MarkedPcs => pc \in MarkedPcs)
    BY <1>5 DEF BulkAcquire, MarkedPcs
  <2> HIDE DEF pc
  <2>2. Moved(j) /\ worker'[j].pc = pc
    BY <1>0, <2>1, StepFacts
  <2> QED
    BY <1>5, <2>1, <2>2, Moved_IInv DEF BulkAcquire
<1>6. CASE Bulk(j)
  <2>1. Moved(j) /\ worker'[j].pc = AfterError(j)
    BY <1>0, <1>6, StepOkFacts, AfterErrorFacts DEF Bulk
  <2> QED
    BY <1>6, <2>1, Moved_IInv, AfterErrorFacts DEF Bulk, MarkedPcs
<1>7. CASE Prune(j)
  <2>1. Moved(j) /\ worker'[j].pc = "finish"
    BY <1>0, <1>7, StepFacts DEF Prune
  <2> QED
    BY <1>7, <2>1, Moved_IInv DEF Prune, MarkedPcs
<1>8. CASE Panic(j)
  <2>1. Moved(j) /\ worker'[j].pc = "panicked"
    BY <1>0, <1>8, StepFacts DEF Panic
  <2> QED
    BY <1>8, <2>1, Moved_IInv DEF Panic, MarkedPcs
<1> QED
  BY <1>1, <1>2, <1>3, <1>4, <1>5, <1>6, <1>7, <1>8

\* The marker names a run from before its first step on the repository.
LEMMA SetMarker_IInv ==
  ASSUME IInv, NEW j \in Jobs, SetMarker(j)
  PROVE  IInv'
<1>1. TypeOK /\ worker[j].profile \in Profiles /\ worker[j].pc = "marker"
  BY DEF IInv, Inv, JobInv, SetMarker
<1>2. Moved(j) /\ worker'[j].pc \in {"exec_load", "init_load"}
  BY <1>1, StepOkFacts DEF SetMarker
<1>3. JobInv' /\ NoOverlap' /\ job' \in [Jobs -> JobStates]
  BY <1>1, <1>2, Moved_Job DEF SetMarker
<1>4. HonestInv'
  BY <1>2, Moved_Honest DEF SetMarker
<1>5. TypeOK'
  BY <1>1, <1>2, <1>3 DEF TypeOK, Moved, SetMarker
<1>6. worker[j].kind = "run" => MarkerInv'
  BY <1>2 DEF MarkerInv, MarkedPcs, Moved, SetMarker
<1>7. worker[j].kind = "run"
  BY <1>1 DEF IInv, Inv, JobInv
<1> QED
  BY <1>3, <1>4, <1>5, <1>6, <1>7 DEF IInv, Inv

\* The marker is cleared by whichever run clears it first.
LEMMA ClearMarker_IInv ==
  ASSUME IInv, NEW j \in Jobs, ClearMarker(j)
  PROVE  IInv'
<1>1. Moved(j) /\ worker'[j].pc = "record"
  BY StepFacts DEF IInv, ClearMarker
<1>2. JobInv' /\ NoOverlap' /\ job' \in [Jobs -> JobStates]
  BY <1>1, Moved_Job DEF ClearMarker
<1>3. HonestInv' /\ MarkerInv'
  BY <1>1, Moved_Honest DEF ClearMarker, MarkerInv
<1>4. TypeOK'
  BY <1>1, <1>2 DEF IInv, TypeOK, Moved, ClearMarker
<1> QED
  BY <1>2, <1>3, <1>4 DEF IInv, Inv

\* The repository exists before its initialisation is recorded.
LEMMA InitBulk_IInv ==
  ASSUME IInv, NEW j \in Jobs, InitBulk(j)
  PROVE  IInv'
<1>0. TypeOK /\ worker[j].initDef \in Defs
  BY WorkerFields DEF IInv
<1>1. CASE StepOk(j, AfterError(j), FALSE) /\ UNCHANGED created
  <2>1. Moved(j) /\ worker'[j].pc = AfterError(j)
    BY <1>0, <1>1, StepOkFacts, AfterErrorFacts
  <2> QED
    BY <1>1, <2>1, Moved_IInv, AfterErrorFacts DEF InitBulk, MarkedPcs
<1>2. CASE /\ Step(j, "init_record")
           /\ created' = created \cup {RepoOf[worker[j].initDef]}
  <2>1. /\ Moved(j) /\ worker'[j].pc = "init_record"
        /\ worker'[j].initDef = worker[j].initDef
    BY <1>0, <1>2, StepFacts
  <2>2. JobInv' /\ NoOverlap' /\ job' \in [Jobs -> JobStates]
    BY <2>1, Moved_Job DEF InitBulk
  <2>3. HonestInv'
    BY <1>2, <2>1, Moved_Honest DEF InitBulk
  <2>4. MarkerInv'
    BY <2>1, Moved_Marker DEF InitBulk, MarkedPcs
  <2>5. TypeOK'
    BY <1>0, <1>2, <2>1, <2>2 DEF TypeOK, Moved, InitBulk
  <2> QED
    BY <2>2, <2>3, <2>4, <2>5 DEF IInv, Inv
<1> QED
  BY <1>1, <1>2 DEF InitBulk

\* A task writes into the list only a profile that is honest if the one there is.
LEMMA Record_IInv ==
  ASSUME IInv, NEW j \in Jobs, worker[j].pc # "none", Moved(j),
         worker'[j].pc \notin RunPcs \cup {"none", "init_record"},
         UNCHANGED <<running, job, page, created, staleSave>>,
         worker[j].kind = "run" /\ worker[j].pc \in MarkedPcs => worker'[j].pc \in MarkedPcs,
         NEW x \in Profile, NEW outcome, Put(worker[j].profile, x, outcome),
         Honest(profiles[worker[j].profile]) => Honest(x)
  PROVE  IInv'
<1> DEFINE p == worker[j].profile
<1>1. p \in Profiles /\ TypeOK
  BY DEF IInv, Inv, JobInv
<1>2. /\ profiles' \in [Profiles -> Profile]
      /\ \A q \in Profiles \ {p} : profiles'[q] = profiles[q]
      /\ profiles'[p] \in {profiles[p], x}
  BY <1>1, PutFacts
<1>3. JobInv' /\ NoOverlap' /\ job' \in [Jobs -> JobStates]
  BY Moved_Job
<1>4. MarkerInv'
  BY Moved_Marker
<1>5. HonestInv'
  <2>1. \A y : Honest(y)' <=> Honest(y)
    BY DEF Honest
  <2>2. ASSUME NEW q \in Profiles \ staleSave PROVE Honest(profiles'[q])
    <3>1. Honest(profiles[q])
      BY DEF IInv, Inv, HonestInv
    <3> QED
      BY <1>1, <1>2, <3>1
  <2>3. \A i \in Jobs : worker'[i].pc = "init_record" => worker'[i] = worker[i]
    BY DEF Moved
  <2> HIDE DEF p
  <2> QED
    BY <2>1, <2>2, <2>3 DEF IInv, Inv, HonestInv
<1>6. TypeOK'
  BY <1>2, <1>3 DEF IInv, TypeOK, Moved
<1> QED
  BY <1>3, <1>4, <1>5, <1>6 DEF IInv, Inv

\* repo_initialized is set only if the profile still has the definition whose
\* repository was created.
LEMMA InitRecord_IInv ==
  ASSUME IInv, NEW j \in Jobs, InitRecord(j)
  PROVE  IInv'
<1> DEFINE p == worker[j].profile
<1>0. /\ TypeOK /\ p \in Profiles /\ profiles[p] \in Profile
      /\ worker[j].pc = "init_record" /\ RepoOf[worker[j].initDef] \in created
  BY DEF IInv, Inv, JobInv, TypeOK, InitRecord, HonestInv
<1>1. /\ Moved(j) /\ worker'[j].pc \in {"exec_load", "finish", AfterError(j)}
      /\ worker[j].kind = "run" => worker'[j].pc \in {"exec_load", AfterError(j)}
  <2>1. CASE Step(j, "exec_load")
    BY <1>0, <2>1, StepFacts
  <2>2. CASE StepOk(j, "finish", TRUE) /\ worker[j].kind # "run"
    BY <1>0, <2>2, StepOkFacts
  <2>3. CASE StepOk(j, AfterError(j), FALSE)
    BY <1>0, <2>3, StepOkFacts, AfterErrorFacts
  <2> QED
    BY <2>1, <2>2, <2>3 DEF InitRecord
<1>2. CASE UNCHANGED profiles
  BY <1>0, <1>1, <1>2, Moved_IInv, AfterErrorFacts DEF InitRecord, MarkedPcs
<1>3. CASE ~ UNCHANGED profiles
  <2> DEFINE x == [profiles[p] EXCEPT !.init = TRUE]
  <2>1. PICK outcome \in SaveOutcomes : Put(p, x, outcome)
    BY <1>3 DEF InitRecord
  <2>2. profiles[p].def = worker[j].initDef
    BY <1>3 DEF InitRecord, Unchanged
  <2>3. /\ x \in Profile /\ x.def = profiles[p].def /\ x.of = profiles[p].of
        /\ x.result = profiles[p].result
    BY <1>0 DEF Profile
  <2> HIDE DEF x
  <2>4. Honest(profiles[p]) => Honest(x)
    BY <1>0, <2>2, <2>3 DEF Honest
  <2> QED
    BY <1>0, <1>1, <2>1, <2>3, <2>4, Record_IInv, AfterErrorFacts
    DEF InitRecord, MarkedPcs
<1> QED
  BY <1>2, <1>3

\* A result is recorded only for the definition that was backed up.
LEMMA RecordRun_IInv ==
  ASSUME IInv, NEW j \in Jobs, RecordRun(j)
  PROVE  IInv'
<1> DEFINE p == worker[j].profile
           result == IF worker[j].ok THEN "ok" ELSE "failed"
<1>0. /\ TypeOK /\ p \in Profiles /\ profiles[p] \in Profile
      /\ worker[j].pc = "record" /\ worker[j].def \in Defs
  BY WorkerFields DEF IInv, Inv, JobInv, TypeOK, RecordRun
<1>1. Moved(j) /\ worker'[j].pc \in {"prune_queue", "finish"}
  <2>1. CASE Step(j, "prune_queue") \/ Step(j, "finish")
    BY <1>0, <2>1, StepFacts
  <2>2. CASE StepOk(j, "finish", FALSE)
    BY <1>0, <2>2, StepOkFacts
  <2> QED
    BY <2>1, <2>2 DEF RecordRun
<1>2. CASE UNCHANGED profiles
  BY <1>0, <1>1, <1>2, Moved_IInv DEF RecordRun, MarkedPcs
<1>3. CASE ~ UNCHANGED profiles
  <2> DEFINE x == [profiles[p] EXCEPT !.result = result, !.of = worker[j].def]
  <2>1. PICK outcome \in SaveOutcomes : Put(p, x, outcome)
    BY <1>3 DEF RecordRun
  <2>2. profiles[p].def = worker[j].def
    BY <1>3 DEF RecordRun, Unchanged
  <2>3. result \in {"ok", "failed"}
    OBVIOUS
  <2> HIDE DEF result
  <2>4. /\ x \in Profile /\ x.def = profiles[p].def /\ x.of = worker[j].def
        /\ x.init = profiles[p].init
    BY <1>0, <2>3 DEF Profile
  <2> HIDE DEF x
  <2>5. Honest(profiles[p]) => Honest(x)
    BY <2>2, <2>4 DEF Honest
  <2> QED
    BY <1>0, <1>1, <2>1, <2>4, <2>5, Record_IInv DEF RecordRun, MarkedPcs
<1> QED
  BY <1>2, <1>3

-----------------------------------------------------------------------------
(* The registry.                                                             *)

\* An accepted job is the only one of its profile.
LEMMA StartJob_IInv ==
  ASSUME IInv, NEW j \in Jobs, NEW p \in Profiles, NEW k \in Kinds, StartJob(j, p, k)
  PROVE  IInv'
<1> DEFINE w == [NoWorker EXCEPT !.pc = "spawned", !.kind = k, !.profile = p]
<1>1. w \in Worker /\ w.pc = "spawned" /\ w.profile = p
  BY NoneFacts DEF Worker
<1>2. worker' = [worker EXCEPT ![j] = w] /\ TypeOK
  BY DEF StartJob, IInv
<1> HIDE DEF w
<1>3. /\ worker' \in [Jobs -> Worker] /\ worker'[j] = w
      /\ \A i \in Jobs \ {j} : worker'[i] = worker[i]
  BY <1>1, <1>2, WorkerFacts
<1>4. /\ job' \in [Jobs -> JobStates] /\ job'[j] = "pending" /\ job[j] = "unused"
      /\ \A i \in Jobs \ {j} : job'[i] = job[i]
  BY <1>2 DEF StartJob, TypeOK
<1>5. worker[j].pc = "none"
  BY <1>4 DEF IInv, Inv, JobInv, Active
<1>6. TypeOK'
  BY <1>3, <1>4 DEF IInv, TypeOK, StartJob
<1>7. JobInv'
  BY <1>1, <1>3, <1>4 DEF IInv, Inv, JobInv, Active, StartJob
<1>8. NoOverlap'
  BY <1>1, <1>3 DEF IInv, Inv, JobInv, NoOverlap, Collides, StartJob
<1>9. MarkerInv'
  BY <1>3, <1>5 DEF IInv, Inv, MarkerInv, MarkedPcs, StartJob
<1>10. HonestInv'
  BY <1>1, <1>3 DEF IInv, Inv, HonestInv, Honest, StartJob
<1> QED
  BY <1>6, <1>7, <1>8, <1>9, <1>10 DEF IInv, Inv

\* An entry that ends takes its task with it; the marker is not its run's.
LEMMA End_IInv ==
  ASSUME IInv, NEW j \in Jobs, NEW state \in JobStates \ {"pending", "running"},
         job' = [job EXCEPT ![j] = state], worker' = [worker EXCEPT ![j] = NoWorker],
         UNCHANGED <<profiles, page, created, staleSave>>,
         running' \in {running, Nobody},
         worker[j].pc \in MarkedPcs => running' # worker[j].profile \/ running' = Nobody
  PROVE  IInv'
<1>1. /\ worker' \in [Jobs -> Worker] /\ worker'[j] = NoWorker
      /\ \A i \in Jobs \ {j} : worker'[i] = worker[i]
  BY NoneFacts, WorkerFacts DEF IInv
<1>2. /\ job' \in [Jobs -> JobStates] /\ job'[j] = state
      /\ \A i \in Jobs \ {j} : job'[i] = job[i]
  BY DEF IInv, TypeOK
<1>3. TypeOK'
  BY <1>1, <1>2 DEF IInv, TypeOK
<1>4. JobInv'
  BY <1>1, <1>2, NoneFacts DEF IInv, Inv, JobInv, Active
<1>5. NoOverlap'
  BY <1>1, NoneFacts DEF IInv, Inv, NoOverlap
<1>6. MarkerInv'
  BY <1>1 DEF IInv, Inv, MarkerInv
<1>7. HonestInv'
  BY <1>1, NoneFacts DEF IInv, Inv, HonestInv, Honest
<1> QED
  BY <1>3, <1>4, <1>5, <1>6, <1>7 DEF IInv, Inv

\* A job ends by its own report, by its monitor's, or is forgotten.
LEMMA Ends_IInv ==
  ASSUME IInv, NEW j \in Jobs, Finish(j) \/ RecoverAbandoned(j) \/ Gc(j)
  PROVE  IInv'
<1>1. CASE Finish(j)
  <2> DEFINE state == IF worker[j].ok THEN "succeeded" ELSE "failed"
  <2>1. state \in JobStates \ {"pending", "running"} /\ job' = [job EXCEPT ![j] = state]
    BY <1>1 DEF Finish
  <2> HIDE DEF state
  <2> QED
    BY <1>1, <2>1, End_IInv DEF Finish, MarkedPcs
<1>2. CASE RecoverAbandoned(j)
  BY <1>2, End_IInv DEF RecoverAbandoned
<1>3. CASE Gc(j)
  <2>1. worker[j].pc = "none"
    BY <1>3 DEF Gc, Terminal, IInv, Inv, JobInv, Active
  <2> QED
    BY <1>3, <2>1, End_IInv DEF Gc, MarkedPcs
<1> QED
  BY <1>1, <1>2, <1>3

\* A restart leaves the stored profiles and the open forms.
LEMMA Crash_IInv ==
  ASSUME IInv, Crash
  PROVE  IInv'
<1>1. /\ \A j \in Jobs : worker'[j] = NoWorker /\ job'[j] = "unused"
      /\ worker' \in [Jobs -> Worker] /\ job' \in [Jobs -> JobStates]
  BY NoneFacts DEF Crash
<1>2. ASSUME NEW c \in Clients
      PROVE  /\ page'[c] \in Page /\ page'[c].profile = page[c].profile
             /\ page'[c].pc = "closed" <=> page[c].pc = "closed"
             /\ page'[c].shown = page[c].shown
             /\ page'[c].payload \in {page[c].payload, NoProfile}
  <2>1. page[c] \in Page
    BY DEF IInv, TypeOK
  <2>2. CASE page[c].pc = "saving"
    <3>1. page'[c] = [page[c] EXCEPT !.pc = "open", !.payload = NoProfile]
      BY <2>2 DEF Crash
    <3> QED
      BY <2>1, <2>2, <3>1, NoneFacts DEF Page
  <2>3. CASE page[c].pc # "saving"
    BY <2>1, <2>3 DEF Crash
  <2> QED
    BY <2>2, <2>3
<1>3. page' \in [Clients -> Page]
  BY <1>2 DEF Crash
<1>4. TypeOK'
  BY <1>1, <1>3 DEF IInv, TypeOK, Crash
<1>5. JobInv' /\ NoOverlap' /\ MarkerInv'
  BY <1>1, <1>2, NoneFacts DEF IInv, Inv, JobInv, NoOverlap, MarkerInv, Active, Crash
<1>6. HonestInv'
  <2>1. \A x : Honest(x)' <=> Honest(x)
    BY DEF Honest, Crash
  <2>2. Honest(NoProfile)
    BY NoneFacts, NothingClaimed
  <2>3. \A p \in Profiles \ staleSave' : Honest(profiles'[p])
    BY <2>1 DEF IInv, Inv, HonestInv, Crash
  <2>4. ASSUME NEW c \in Clients, page'[c].pc # "closed", page'[c].profile \notin staleSave'
        PROVE  Honest(page'[c].shown) /\ Honest(page'[c].payload)
    <3>1. staleSave' = staleSave
      BY DEF Crash
    <3>2. /\ page'[c].profile = page[c].profile
          /\ page'[c].pc = "closed" <=> page[c].pc = "closed"
      BY <1>2
    <3>3. page[c].pc # "closed" /\ page[c].profile \notin staleSave
      BY <3>1, <3>2, <2>4
    <3>4. Honest(page[c].shown) /\ Honest(page[c].payload)
      BY <3>3 DEF IInv, Inv, HonestInv
    <3>5. page'[c].shown = page[c].shown /\ page'[c].payload \in {page[c].payload, NoProfile}
      BY <1>2
    <3> QED
      BY <2>1, <2>2, <3>4, <3>5
  <2>5. \A j \in Jobs : worker'[j].pc # "init_record"
    BY <1>1, NoneFacts
  <2> QED
    BY <2>1, <2>3, <2>4, <2>5 DEF HonestInv
<1> QED
  BY <1>4, <1>5, <1>6 DEF IInv, Inv

-----------------------------------------------------------------------------
(* The profile list and the forms.                                           *)

\* A step of the operator: at most one form changes, and what is stored and what
\* the form shows and sends is honest.
LEMMA Operator_IInv ==
  ASSUME IInv, NEW c \in Clients, NEW m \in Page, page' = [page EXCEPT ![c] = m],
         UNCHANGED <<running, job, worker, created>>,
         profiles' \in [Profiles -> Profile],
         staleSave \subseteq staleSave', staleSave' \subseteq Profiles,
         \A p \in Profiles \ staleSave' : Honest(profiles'[p]),
         m.pc # "closed" => /\ m.profile \in Profiles
                            /\ m.profile \notin staleSave' =>
                                  Honest(m.shown) /\ Honest(m.payload)
  PROVE  IInv'
<1>1. /\ page' \in [Clients -> Page] /\ page'[c] = m
      /\ \A b \in Clients \ {c} : page'[b] = page[b]
  BY DEF IInv, TypeOK
<1>2. TypeOK'
  BY <1>1 DEF IInv, TypeOK
<1>3. JobInv'
  BY <1>1 DEF IInv, Inv, JobInv, Active
<1>4. NoOverlap' /\ MarkerInv'
  BY DEF IInv, Inv, NoOverlap, MarkerInv
<1>5. HonestInv'
  <2>1. \A x : Honest(x)' <=> Honest(x)
    BY DEF Honest
  <2>2. \A p \in Profiles \ staleSave' : Honest(profiles'[p])
    OBVIOUS
  <2>3. ASSUME NEW b \in Clients, page'[b].pc # "closed", page'[b].profile \notin staleSave'
        PROVE  Honest(page'[b].shown) /\ Honest(page'[b].payload)
    <3>1. CASE b = c
      BY <1>1, <2>1, <2>3, <3>1
    <3>2. CASE b # c
      BY <1>1, <2>1, <2>3, <3>2 DEF IInv, Inv, HonestInv
    <3> QED
      BY <3>1, <3>2
  <2> QED
    BY <2>1, <2>2, <2>3 DEF IInv, Inv, HonestInv
<1> QED
  BY <1>2, <1>3, <1>4, <1>5 DEF IInv, Inv

\* A form that keeps its copies stays honest.
LEMMA FormFacts ==
  ASSUME IInv, NEW c \in Clients, page[c].pc # "closed"
  PROVE  /\ page[c] \in Page /\ page[c].profile \in Profiles
         /\ profiles[page[c].profile] \in Profile
         /\ page[c].profile \notin staleSave =>
               /\ Honest(page[c].shown) /\ Honest(page[c].payload)
               /\ Honest(profiles[page[c].profile])
  BY DEF IInv, Inv, TypeOK, JobInv, HonestInv

\* A save of a profile that is honest, unless it was saved from a stale form.
LEMMA Save_Honest ==
  ASSUME IInv, NEW p \in Profiles, NEW x \in Profile, NEW outcome, Put(p, x, outcome),
         p \notin staleSave => Honest(x), UNCHANGED staleSave
  PROVE  /\ profiles' \in [Profiles -> Profile]
         /\ \A q \in Profiles \ staleSave' : Honest(profiles'[q])
<1>1. TypeOK /\ \A q \in Profiles \ staleSave : Honest(profiles[q])
  BY DEF IInv, Inv, HonestInv
<1>2. /\ profiles' \in [Profiles -> Profile]
      /\ \A q \in Profiles \ {p} : profiles'[q] = profiles[q]
      /\ profiles'[p] \in {profiles[p], x}
  BY <1>1, PutFacts
<1> QED
  BY <1>1, <1>2

\* A new profile and a deleted one claim nothing.
LEMMA List_IInv ==
  ASSUME IInv, NEW p \in Profiles, CreateProfile(p) \/ DeleteProfile(p)
  PROVE  IInv'
<1>1. ASSUME NEW x \in Profile, NEW outcome, Put(p, x, outcome), ~ x.init,
             x.result = "none", UNCHANGED <<running, job, worker, page, created, staleSave>>
      PROVE  IInv'
  <2>1. /\ profiles' \in [Profiles -> Profile]
        /\ \A q \in Profiles \ staleSave' : Honest(profiles'[q])
    BY <1>1, NothingClaimed, Save_Honest
  <2>2. TypeOK'
    BY <1>1, <2>1 DEF IInv, TypeOK
  <2>3. JobInv' /\ NoOverlap' /\ MarkerInv'
    BY <1>1 DEF IInv, Inv, JobInv, Active, NoOverlap, MarkerInv
  <2>4. \A y : Honest(y)' <=> Honest(y)
    BY <1>1 DEF Honest
  <2>5. HonestInv'
    BY <1>1, <2>1, <2>4 DEF IInv, Inv, HonestInv
  <2> QED
    BY <2>2, <2>3, <2>5 DEF IInv, Inv
<1>2. CASE CreateProfile(p)
  <2>1. PICK d \in Defs, outcome \in SaveOutcomes :
            Put(p, [NoProfile EXCEPT !.status = "present", !.def = d, !.of = d], outcome)
    BY <1>2 DEF CreateProfile
  <2> DEFINE x == [NoProfile EXCEPT !.status = "present", !.def = d, !.of = d]
  <2>2. x \in Profile /\ ~ x.init /\ x.result = "none"
    BY NoneFacts DEF Profile
  <2> HIDE DEF x
  <2>3. Put(p, x, outcome)
    BY <2>1 DEF x
  <2> QED
    BY <1>1, <1>2, <2>2, <2>3 DEF CreateProfile
<1>3. CASE DeleteProfile(p)
  <2> DEFINE x == [NoProfile EXCEPT !.status = "deleted"]
  <2>1. PICK outcome \in SaveOutcomes : Put(p, x, outcome)
    BY <1>3 DEF DeleteProfile
  <2>2. x \in Profile /\ ~ x.init /\ x.result = "none"
    BY NoneFacts DEF Profile
  <2> HIDE DEF x
  <2> QED
    BY <1>1, <1>3, <2>1, <2>2 DEF DeleteProfile
<1> QED
  BY <1>2, <1>3

\* A form that opens shows the stored profile, one that reloads does again, and
\* one that closes shows none.
LEMMA Form_IInv ==
  ASSUME IInv, NEW c \in Clients, OpenEdit(c) \/ Refresh(c) \/ CancelEdit(c)
  PROVE  IInv'
<1>0. /\ TypeOK /\ profiles' = profiles /\ staleSave' = staleSave
      /\ UNCHANGED <<running, job, worker, created>>
      /\ \A p \in Profiles \ staleSave : Honest(profiles[p])
      /\ profiles \in [Profiles -> Profile] /\ staleSave \subseteq Profiles
  BY DEF IInv, Inv, TypeOK, HonestInv, OpenEdit, Refresh, CancelEdit
<1>1. CASE OpenEdit(c)
  <2>1. PICK p \in Profiles :
            page' = [page EXCEPT ![c] =
                        [NoPage EXCEPT !.pc = "open", !.profile = p,
                                       !.orig = profiles[p].def, !.shown = profiles[p]]]
    BY <1>1 DEF OpenEdit
  <2> DEFINE m == [NoPage EXCEPT !.pc = "open", !.profile = p,
                                 !.orig = profiles[p].def, !.shown = profiles[p]]
  <2>2. profiles[p] \in Profile /\ profiles[p].def \in Defs
    BY <1>0 DEF Profile
  <2>3. /\ m \in Page /\ m.profile = p /\ m.shown = profiles[p]
        /\ m.payload = NoPage.payload
    BY <2>2, NoneFacts DEF Page
  <2>4. NoPage.payload = NoProfile
    BY DEF NoPage
  <2> HIDE DEF m
  <2>5. page' = [page EXCEPT ![c] = m]
    BY <2>1 DEF m
  <2>6. Honest(NoProfile)
    BY NoneFacts, NothingClaimed
  <2> QED
    BY <1>0, <2>3, <2>4, <2>5, <2>6, Operator_IInv
<1>2. CASE Refresh(c)
  <2> DEFINE p == page[c].profile
             m == [page[c] EXCEPT !.shown = profiles[p]]
  <2>1. page[c].pc # "closed"
    BY <1>2 DEF Refresh
  <2>2. page' = [page EXCEPT ![c] = m]
    BY <1>0, <1>2, <2>1, FormFacts DEF Refresh, TypeOK
  <2>3. /\ m \in Page /\ m.profile = p /\ m.shown = profiles[p]
        /\ m.payload = page[c].payload
    BY <2>1, FormFacts DEF Page
  <2> HIDE DEF m
  <2> QED
    BY <1>0, <2>1, <2>2, <2>3, FormFacts, Operator_IInv
<1>3. CASE CancelEdit(c)
  BY <1>0, <1>3, NoneFacts, Operator_IInv DEF CancelEdit
<1> QED
  BY <1>1, <1>2, <1>3

\* What a form sends: an edit of the shown profile, with the result dropped when
\* the definition changes.  It is honest when the form was opened on, and shows,
\* the definition in force.
LEMMA Payload ==
  ASSUME NEW c, page[c] \in Page, NEW d \in Defs, NEW old \in Profile
  PROVE  /\ Invalidated(Edited(c, d), old) \in Profile
         /\ Invalidated(Edited(c, d), old).def = d
         /\ Honest(page[c].shown) /\ page[c].shown.def = old.def /\ page[c].orig = old.def
               => Honest(Invalidated(Edited(c, d), old))
<1> DEFINE e == Edited(c, d)
           x == Invalidated(e, old)
<1>1. page[c].shown \in Profile /\ page[c].shown.init \in BOOLEAN
  BY DEF Page, Profile
<1>2. /\ e \in Profile /\ e.def = d /\ e.result = page[c].shown.result
      /\ e.of = page[c].shown.of
      /\ e.init => page[c].shown.init /\ RepoOf[d] = RepoOf[page[c].orig]
  <2> DEFINE init == page[c].shown.init /\ RepoOf[d] = RepoOf[page[c].orig]
  <2>1. init \in BOOLEAN
    OBVIOUS
  <2>2. e = [page[c].shown EXCEPT !.def = d, !.init = init]
    BY <1>1 DEF Edited, Profile
  <2> HIDE DEF e, init
  <2>3. /\ e \in Profile /\ e.def = d /\ e.result = page[c].shown.result
        /\ e.of = page[c].shown.of /\ e.init = init
    BY <1>1, <2>1, <2>2 DEF Profile
  <2> QED
    BY <2>3 DEF init
<1> HIDE DEF e
<1>3. CASE d = old.def
  <2>1. x = e
    BY <1>2, <1>3 DEF Invalidated
  <2> QED
    BY <1>2, <1>3, <2>1 DEF Honest, e
<1>4. CASE d # old.def
  <2>1. x = [e EXCEPT !.result = "none", !.of = e.def]
    BY <1>2, <1>4 DEF Invalidated
  <2> HIDE DEF x
  <2>2. x \in Profile /\ x.def = d /\ x.init = e.init /\ x.result = "none"
    BY <1>2, <2>1 DEF Profile
  <2>3. Honest(page[c].shown) /\ page[c].shown.def = old.def /\ page[c].orig = old.def
           => Honest(x)
    BY <1>2, <2>2 DEF Honest
  <2> QED
    BY <2>2, <2>3 DEF x, e
<1> QED
  BY <1>3, <1>4

\* A save reads the stored profile: the page is stale, or what it sends is honest.
LEMMA UpdateRead_IInv ==
  ASSUME IInv, NEW c \in Clients, UpdateRead(c)
  PROVE  IInv'
<1> DEFINE p == page[c].profile
<1>1. page[c].pc # "closed" /\ TypeOK
  BY DEF UpdateRead, IInv
<1>2. /\ page[c] \in Page /\ p \in Profiles /\ profiles[p] \in Profile
      /\ p \notin staleSave => Honest(page[c].shown)
  BY <1>1, FormFacts
<1>3. PICK d \in Defs :
          page' = [page EXCEPT ![c].pc = "saving",
                               ![c].payload = Invalidated(Edited(c, d), profiles[p])]
  BY DEF UpdateRead
<1> DEFINE x == Invalidated(Edited(c, d), profiles[p])
           m == [page[c] EXCEPT !.pc = "saving", !.payload = x]
<1>4. /\ x \in Profile
      /\ Honest(page[c].shown) /\ page[c].shown.def = profiles[p].def
            /\ page[c].orig = profiles[p].def => Honest(x)
  BY <1>2, Payload
<1> HIDE DEF x
<1>5. page' = [page EXCEPT ![c] = m]
  BY <1>1, <1>3 DEF TypeOK, x
<1>6. /\ m \in Page /\ m.profile = p /\ m.shown = page[c].shown /\ m.payload = x
  BY <1>2, <1>4 DEF Page
<1> HIDE DEF m
<1>7. /\ staleSave \subseteq staleSave' /\ staleSave' \subseteq Profiles
      /\ p \notin staleSave' => /\ page[c].shown.def = profiles[p].def
                                /\ page[c].orig = profiles[p].def
  BY <1>1, <1>2 DEF UpdateRead, TypeOK
<1>8. /\ profiles' \in [Profiles -> Profile] /\ UNCHANGED <<running, job, worker, created>>
      /\ \A q \in Profiles \ staleSave' : Honest(profiles'[q])
  BY <1>1, <1>7 DEF UpdateRead, TypeOK, IInv, Inv, HonestInv
<1> QED
  BY <1>2, <1>4, <1>5, <1>6, <1>7, <1>8, Operator_IInv

\* The save replaces the profile by what the form sent.
LEMMA UpdateCommit_IInv ==
  ASSUME IInv, NEW c \in Clients, UpdateCommit(c)
  PROVE  IInv'
<1> DEFINE p == page[c].profile
           m == [page[c] EXCEPT !.pc = "open", !.payload = NoProfile]
<1>1. page[c].pc # "closed" /\ TypeOK
  BY DEF UpdateCommit, IInv
<1>2. /\ page[c] \in Page /\ p \in Profiles /\ profiles[p] \in Profile
      /\ page[c].payload \in Profile
      /\ p \notin staleSave => Honest(page[c].shown) /\ Honest(page[c].payload)
  BY <1>1, FormFacts DEF Page
<1>3. m \in Page /\ m.profile = p /\ m.shown = page[c].shown /\ m.payload = NoProfile
  BY <1>2, NoneFacts DEF Page
<1>4. Honest(NoProfile)
  BY NoneFacts, NothingClaimed
<1>5. page' = [page EXCEPT ![c] = m] \/ page' = [page EXCEPT ![c] = NoPage]
  BY <1>1 DEF UpdateCommit, TypeOK
<1>6. /\ profiles' \in [Profiles -> Profile]
      /\ \A q \in Profiles \ staleSave' : Honest(profiles'[q])
  <2>1. CASE UNCHANGED profiles
    BY <1>1, <2>1 DEF UpdateCommit, TypeOK, IInv, Inv, HonestInv
  <2>2. CASE \E outcome \in SaveOutcomes : Put(p, page[c].payload, outcome)
    BY <1>2, <2>2, Save_Honest DEF UpdateCommit
  <2> QED
    BY <2>1, <2>2 DEF UpdateCommit
<1>7. UNCHANGED <<running, job, worker, created, staleSave>> /\ staleSave \subseteq Profiles
  BY <1>1 DEF UpdateCommit, TypeOK
<1> HIDE DEF m
<1> QED
  BY <1>2, <1>3, <1>4, <1>5, <1>6, <1>7, NoneFacts, Operator_IInv

-----------------------------------------------------------------------------
(* The theorems.                                                             *)

\* The service starts with no profile, no job and no form.
LEMMA Init_IInv == Init => IInv
<1> SUFFICES ASSUME Init PROVE IInv
  OBVIOUS
<1>1. TypeOK
  BY NoneFacts DEF Init, TypeOK
<1>2. JobInv
  BY NoneFacts DEF Init, JobInv, Active
<1>3. NoOverlap /\ MarkerInv
  BY NoneFacts DEF Init, NoOverlap, MarkerInv
<1>4. HonestInv
  BY NoneFacts, NothingClaimed DEF Init, HonestInv
<1> QED
  BY <1>1, <1>2, <1>3, <1>4 DEF IInv, Inv

\* Every step keeps the inductive invariant.
LEMMA Next_IInv ==
  ASSUME IInv, [Next]_vars
  PROVE  IInv'
<1>1. CASE UNCHANGED vars
  BY <1>1 DEF vars, IInv, Inv, TypeOK, JobInv, Active, NoOverlap, MarkerInv, HonestInv,
              Honest
<1>2. ASSUME NEW p \in Profiles, CreateProfile(p) \/ DeleteProfile(p) PROVE IInv'
  BY <1>2, List_IInv
<1>3. ASSUME NEW c \in Clients, \/ OpenEdit(c) \/ Refresh(c) \/ CancelEdit(c)
                                \/ UpdateRead(c) \/ UpdateCommit(c)
      PROVE  IInv'
  BY <1>3, Form_IInv, UpdateRead_IInv, UpdateCommit_IInv
<1>4. ASSUME NEW j \in Jobs, NEW p \in Profiles, NEW k \in Kinds, StartJob(j, p, k)
      PROVE  IInv'
  BY <1>4, StartJob_IInv
<1>5. ASSUME NEW j \in Jobs, WorkerStep(j) \/ BulkAcquire(j) \/ Panic(j)
                               \/ RecoverAbandoned(j) \/ Gc(j)
      PROVE  IInv'
  BY <1>5, Quiet_IInv, SetMarker_IInv, ClearMarker_IInv, InitBulk_IInv,
     InitRecord_IInv, RecordRun_IInv, Ends_IInv DEF WorkerStep
<1>6. CASE Crash
  BY <1>6, Crash_IInv
<1> QED
  BY <1>1, <1>2, <1>3, <1>4, <1>5, <1>6 DEF Next

\* The inductive invariant of the backup service.
THEOREM Invariance == Spec => []IInv
<1>1. IInv /\ [Next]_vars => IInv'
  BY Next_IInv
<1> QED
  BY <1>1, Init_IInv, PTL DEF Spec

\* Type correctness.
THEOREM TypeCorrect == Spec => []TypeOK
<1>1. IInv => TypeOK
  BY DEF IInv
<1> QED
  BY <1>1, Invariance, PTL

\* JobRegistry::start keeps the jobs of one profile apart, whatever panics,
\* restarts and garbage collections happen in between.
THEOREM JobsApart == Spec => []NoOverlap
<1>1. IInv => NoOverlap
  BY DEF IInv, Inv
<1> QED
  BY <1>1, Invariance, PTL

\* backup.status never names a profile without a backup in progress: every way
\* out of run_backup, a panic and recover_abandoned included, clears the marker.
THEOREM MarkerIsHonest == Spec => []MarkerHonest
<1>1. IInv => MarkerHonest
  BY DEF IInv, Inv, JobInv, MarkerInv, MarkedPcs, MarkerHonest
<1> QED
  BY <1>1, Invariance, PTL

\* repo_initialized is believed only of the target it was set for: the checks of
\* init_repo under the list's lock are enough against any interleaving of edits.
THEOREM InitFlagIsHonest == Spec => []InitFlagHonest
<1>1. IInv => InitFlagHonest
  BY DEF IInv, Inv, HonestInv, Honest, InitFlagHonest
<1> QED
  BY <1>1, Invariance, PTL

\* last_run reports a success only of the definition that was backed up.
THEOREM CoverageIsHonest == Spec => []CoverageHonest
<1>1. IInv => CoverageHonest
  BY DEF IInv, Inv, HonestInv, Honest, CoverageHonest
<1> QED
  BY <1>1, Invariance, PTL

\* A step that writes the list writes a profile that is new or present.
LEMMA Writes ==
  ASSUME IInv, Next
  PROVE  \/ UNCHANGED profiles
         \/ \E p \in Profiles : \E x, outcome :
               Put(p, x, outcome) /\ profiles[p].status # "deleted"
<1>1. ASSUME NEW p \in Profiles, CreateProfile(p) \/ DeleteProfile(p)
      PROVE  \E x, outcome : Put(p, x, outcome) /\ profiles[p].status # "deleted"
  BY <1>1 DEF CreateProfile, DeleteProfile, Present
<1>2. ASSUME NEW c \in Clients, UpdateCommit(c)
      PROVE  \/ UNCHANGED profiles
             \/ \E p \in Profiles : \E x, outcome :
                   Put(p, x, outcome) /\ profiles[p].status # "deleted"
  BY <1>2, FormFacts DEF UpdateCommit, Present
<1>3. ASSUME NEW j \in Jobs, InitRecord(j) \/ RecordRun(j)
      PROVE  \/ UNCHANGED profiles
             \/ \E p \in Profiles : \E x, outcome :
                   Put(p, x, outcome) /\ profiles[p].status # "deleted"
  <2>1. worker[j].profile \in Profiles
    BY <1>3 DEF InitRecord, RecordRun, IInv, Inv, JobInv
  <2>2. CASE InitRecord(j)
    BY <2>1, <2>2 DEF InitRecord, Unchanged, Present
  <2>3. CASE RecordRun(j)
    BY <2>1, <2>3 DEF RecordRun, Unchanged, Present
  <2> QED
    BY <1>3, <2>2, <2>3
<1>4. CASE \E c \in Clients : OpenEdit(c) \/ Refresh(c) \/ CancelEdit(c) \/ UpdateRead(c)
  BY <1>4 DEF OpenEdit, Refresh, CancelEdit, UpdateRead
<1>5. CASE \E j \in Jobs, p \in Profiles, k \in Kinds : StartJob(j, p, k)
  BY <1>5 DEF StartJob
<1>6. ASSUME NEW j \in Jobs,
             \/ MarkRunning(j) \/ RunLoad(j) \/ SetMarker(j) \/ InitLoad(j) \/ ExecLoad(j)
             \/ InitBulk(j) \/ Bulk(j) \/ ClearMarker(j) \/ Prune(j) \/ Finish(j)
             \/ BulkAcquire(j) \/ Panic(j) \/ RecoverAbandoned(j) \/ Gc(j)
      PROVE  UNCHANGED profiles
  BY <1>6 DEF MarkRunning, RunLoad, SetMarker, InitLoad, ExecLoad, InitBulk, Bulk,
              ClearMarker, Prune, Finish, BulkAcquire, Panic, RecoverAbandoned, Gc
<1>7. CASE Crash
  BY <1>7 DEF Crash
<1> QED
  BY <1>1, <1>2, <1>3, <1>4, <1>5, <1>6, <1>7 DEF Next, WorkerStep

\* A deleted profile stays deleted: neither a run or an initialisation that ends
\* late nor a save that was under way writes it back.
THEOREM NothingRevived == Spec => NoResurrection
<1>1. ASSUME IInv, [Next]_vars
      PROVE  [\A p \in Profiles : profiles[p].status = "deleted"
                                     => profiles'[p].status = "deleted"]_vars
  <2>1. CASE UNCHANGED profiles
    BY <2>1
  <2>2. ASSUME NEW q \in Profiles, NEW x, NEW outcome, Put(q, x, outcome),
               profiles[q].status # "deleted"
        PROVE  \A p \in Profiles : profiles[p].status = "deleted"
                                     => profiles'[p].status = "deleted"
    BY <1>1, <2>2 DEF Put, IInv, TypeOK
  <2> QED
    BY <1>1, <2>1, <2>2, Writes
<1> QED
  BY <1>1, Invariance, PTL DEF Spec, NoResurrection
=============================================================================
