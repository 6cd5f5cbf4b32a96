--------------------------- MODULE BackupScheduler ---------------------------
(***************************************************************************)
(* The cron-driven backup scheduler, engine/nasty-backup/src/scheduler.rs: *)
(* SchedulerTick and run_scheduler_loop, against a profile list that the   *)
(* operator edits and a job registry that may refuse a start.              *)
(*                                                                         *)
(* A cron schedule is the set of the instants it names; the empty set      *)
(* stands for no schedule, an empty one and one that does not parse.       *)
(***************************************************************************)
EXTENDS Naturals

CONSTANTS
    Profiles,     \* profile ids
    Schedules,    \* the schedules operators choose from, sets of instants
    MaxTime,      \* bound on the clock
    MaxOther,     \* bound on jobs the scheduler did not start
    MaxCrashes,   \* bound on engine restarts
    Never         \* no entry in last_attempted

ASSUME SchedulerAssumption ==
    /\ MaxTime \in Nat \ {0}
    /\ Schedules \subseteq SUBSET (1 .. MaxTime)
    /\ MaxOther \in Nat
    /\ MaxCrashes \in Nat
    /\ Never \notin Nat

VARIABLES
    now,          \* the clock
    up,           \* whether the engine runs
    started,      \* SchedulerTick.started_at
    last,         \* SchedulerTick.last_attempted
    due,          \* the loop: profiles it has still to start in this tick
    evaluated,    \* the loop: the `now' of this tick
    profile,      \* the profile list
    busy,         \* whether the registry holds an active job of the profile
    others,       \* jobs started by operators so far
    crashes,      \* restarts so far
    fired,        \* history: the tick of the profile's last scheduled start
    since         \* history: when its present schedule took effect

loopVars == <<started, last, due, evaluated>>
countVars == <<others, crashes>>
vars == <<now, up, loopVars, profile, busy, countVars, fired, since>>

Profile == [status : {"none", "present", "deleted"}, enabled : BOOLEAN,
            schedule : Schedules \cup {{}}]

Time == 0 .. MaxTime

TypeOK ==
    /\ now \in Time
    /\ up \in BOOLEAN
    /\ started \in Time
    /\ last \in [Profiles -> Time \cup {Never}]
    /\ due \subseteq Profiles
    /\ evaluated \in Time
    /\ profile \in [Profiles -> Profile]
    /\ busy \in [Profiles -> BOOLEAN]
    /\ others \in 0 .. MaxOther
    /\ crashes \in 0 .. MaxCrashes
    /\ fired \in [Profiles -> Time]
    /\ since \in [Profiles -> Time]

Init ==
    /\ now = 0
    /\ up = TRUE
    /\ started = 0
    /\ last = [p \in Profiles |-> Never]
    /\ due = {}
    /\ evaluated = 0
    /\ profile = [p \in Profiles |->
                    [status |-> "none", enabled |-> FALSE, schedule |-> {}]]
    /\ busy = [p \in Profiles |-> FALSE]
    /\ others = 0
    /\ crashes = 0
    /\ fired = [p \in Profiles |-> 0]
    /\ since = [p \in Profiles |-> 0]

Present(p) == profile[p].status = "present"

Advance ==
    /\ now < MaxTime
    /\ now' = now + 1
    /\ UNCHANGED <<up, loopVars, profile, busy, countVars, fired, since>>

-----------------------------------------------------------------------------
(* The scheduler loop.                                                       *)

\* An entry that evaluate would seed with started_at is left out until it is
\* written: reading it gives the same value.
Floor_Zero(p) == IF last[p] = Never THEN 0 ELSE last[p]

Floor(p) == IF last[p] = Never THEN started ELSE last[p]

\* should_fire: the next instant after the floor has passed.
ShouldFire(p) == \E t \in profile[p].schedule : Floor(p) < t /\ t <= now

Fires(p) == Present(p) /\ profile[p].enabled /\ ShouldFire(p)

\* The first half of an iteration: list the profiles and evaluate them all.
Evaluate_NoAttempt ==
    /\ up
    /\ due = {}
    /\ due' = {p \in Profiles : Fires(p)}
    /\ evaluated' = now
    /\ UNCHANGED <<now, up, started, last, profile, busy, countVars, fired, since>>

Evaluate ==
    /\ up
    /\ due = {}
    /\ due' = {p \in Profiles : Fires(p)}
    /\ evaluated' = now
    /\ last' = [p \in Profiles |->
                  IF Fires(p) THEN now
                  ELSE IF Present(p) THEN last[p] ELSE Never]
    /\ UNCHANGED <<now, up, started, profile, busy, countVars, fired, since>>

\* The second half: start each due run.
StartRun(p) ==
    /\ up
    /\ p \in due
    /\ ~busy[p]
    /\ busy' = [busy EXCEPT ![p] = TRUE]
    /\ due' = due \ {p}
    /\ fired' = [fired EXCEPT ![p] = evaluated]
    /\ UNCHANGED <<now, up, started, last, evaluated, profile, countVars, since>>

StartRefused_Dropped(p) ==
    /\ up
    /\ p \in due
    /\ busy[p]
    /\ due' = due \ {p}
    /\ UNCHANGED <<now, up, started, last, evaluated, profile, busy, countVars,
                   fired, since>>

\* AlreadyRunning: retry() forgets the attempt.
StartRefused(p) ==
    /\ up
    /\ p \in due
    /\ busy[p]
    /\ due' = due \ {p}
    /\ last' = [last EXCEPT ![p] = Never]
    /\ UNCHANGED <<now, up, started, evaluated, profile, busy, countVars,
                   fired, since>>

-----------------------------------------------------------------------------
(* The registry, the operator and restarts.                                  *)

JobEnds(p) ==
    /\ busy[p]
    /\ busy' = [busy EXCEPT ![p] = FALSE]
    /\ UNCHANGED <<now, up, loopVars, profile, countVars, fired, since>>

\* A manual run, a check, a restore: any other job of the profile.
OtherJob(p) ==
    /\ up
    /\ Present(p)
    /\ ~busy[p]
    /\ others < MaxOther
    /\ others' = others + 1
    /\ busy' = [busy EXCEPT ![p] = TRUE]
    /\ UNCHANGED <<now, up, loopVars, profile, crashes, fired, since>>

\* create_profile, or update_profile with another schedule or enabled flag.
SetSchedule(p) ==
    /\ up
    /\ profile[p].status # "deleted"
    /\ \E s \in Schedules \cup {{}}, e \in BOOLEAN :
          profile' = [profile EXCEPT ![p] =
                        [status |-> "present", enabled |-> e, schedule |-> s]]
    /\ since' = [since EXCEPT ![p] = now]
    /\ UNCHANGED <<now, up, loopVars, busy, countVars, fired>>

Delete(p) ==
    /\ up
    /\ Present(p)
    /\ profile' = [profile EXCEPT ![p] =
                     [status |-> "deleted", enabled |-> FALSE, schedule |-> {}]]
    /\ UNCHANGED <<now, up, loopVars, busy, countVars, fired, since>>

Crash ==
    /\ up
    /\ crashes < MaxCrashes
    /\ up' = FALSE
    /\ crashes' = crashes + 1
    /\ last' = [p \in Profiles |-> Never]
    /\ due' = {}
    /\ busy' = [p \in Profiles |-> FALSE]
    /\ UNCHANGED <<now, started, evaluated, profile, others, fired, since>>

Restart_NextTick ==
    /\ ~up
    /\ up' = TRUE
    /\ started' = now + 1
    /\ UNCHANGED <<now, last, due, evaluated, profile, busy, countVars, fired, since>>

Restart ==
    /\ ~up
    /\ up' = TRUE
    /\ started' = now
    /\ UNCHANGED <<now, last, due, evaluated, profile, busy, countVars, fired, since>>

-----------------------------------------------------------------------------
Next ==
    \/ Advance \/ Evaluate \/ Crash \/ Restart
    \/ \E p \in Profiles :
          \/ StartRun(p) \/ StartRefused(p) \/ JobEnds(p)
          \/ OtherJob(p) \/ SetSchedule(p) \/ Delete(p)

Spec == Init /\ [][Next]_vars

\* The loop runs for ever and jobs end (Backup!JobsEnd); operators and crashes
\* are not obliged to act.
Fairness ==
    /\ WF_vars(Evaluate)
    /\ \A p \in Profiles : /\ WF_vars(StartRun(p) \/ StartRefused(p))
                           /\ WF_vars(JobEnds(p))

LiveSpec == Spec /\ Fairness

-----------------------------------------------------------------------------
(* Properties                                                                *)

\* A run the scheduler decided on has an instant that passed while this engine
\* was up: what fell into a downtime is never caught up.
NoCatchUp ==
    [][\A p \in due' \ due : \E t \in profile[p].schedule : started < t /\ t <= now]_vars

\* Two scheduled starts of a profile have an instant of its schedule between
\* them, also after refused starts, unless the schedule was edited.
NoDoubleFire ==
    [][\A p \in Profiles :
         StartRun(p) /\ fired[p] > 0 /\ since[p] <= fired[p] /\ Present(p) =>
            \E t \in profile[p].schedule : fired[p] < t /\ t <= evaluated]_vars

\* The profile is owed a run for t: t passed while the engine was up and the
\* present schedule was in force, and nothing was started for it.
Owed(p, t) ==
    /\ up /\ started < t /\ t <= now
    /\ Present(p) /\ profile[p].enabled /\ t \in profile[p].schedule
    /\ since[p] < t
    /\ fired[p] < t

\* No instant is lost: a start that the registry refuses is tried again until
\* it succeeds (or the profile changes or the engine restarts).
NoLostRun == \A p \in Profiles, t \in 1 .. MaxTime : Owed(p, t) ~> ~Owed(p, t)
=============================================================================
