----------------------- MODULE BackupScheduler_proofs -----------------------
(***************************************************************************)
(* Proofs about BackupScheduler, for any profiles, schedules and bounds:   *)
(* the types, the missed-run policy of scheduler.rs, and that no instant   *)
(* is run for twice.                                                       *)
(***************************************************************************)
EXTENDS BackupScheduler, TLAPS

\* last_attempted belongs to this engine: its entries are not older than
\* started_at, and a stopped engine has none.
AttemptInv ==
    /\ started <= now
    /\ \A p \in Profiles : last[p] # Never => up /\ started <= last[p]

IInv == TypeOK /\ AttemptInv

-----------------------------------------------------------------------------
\* A new engine has attempted nothing.
LEMMA InitIInv == Init => IInv
<1> USE SchedulerAssumption DEF SchedulerAssumption
<1> SUFFICES ASSUME Init PROVE IInv
    OBVIOUS
<1>1. 0 \in Time /\ 0 \in 0 .. MaxOther /\ 0 \in 0 .. MaxCrashes
  BY DEF Time
<1>2. TypeOK
  <2>1. profile \in [Profiles -> Profile]
    BY DEF Init, Profile
  <2>2. last \in [Profiles -> Time \cup {Never}]
    BY DEF Init
  <2>3. busy \in [Profiles -> BOOLEAN] /\ fired \in [Profiles -> Time]
        /\ since \in [Profiles -> Time]
    BY <1>1 DEF Init
  <2> QED
    BY <1>1, <2>1, <2>2, <2>3, Zenon DEF Init, TypeOK
<1>3. AttemptInv
  BY DEF Init, AttemptInv
<1> QED
  BY <1>2, <1>3 DEF IInv

-----------------------------------------------------------------------------
(* One lemma per action that touches the scheduler's own state.              *)

\* The clock moves away from the start.
LEMMA AdvanceIInv == ASSUME IInv, Advance PROVE IInv'
<1> USE SchedulerAssumption DEF SchedulerAssumption, loopVars, countVars
<1>1. now' \in Time /\ started <= now'
  BY DEF IInv, TypeOK, AttemptInv, Advance, Time
<1>2. TypeOK'
  BY <1>1 DEF IInv, TypeOK, Advance
<1>3. AttemptInv'
  BY <1>1 DEF IInv, AttemptInv, Advance
<1> QED
  BY <1>2, <1>3 DEF IInv

\* An attempt is made now, after the start.
LEMMA EvaluateIInv == ASSUME IInv, Evaluate PROVE IInv'
<1> USE SchedulerAssumption DEF SchedulerAssumption, countVars
<1>1. /\ last' \in [Profiles -> Time \cup {Never}]
      /\ \A p \in Profiles : last'[p] \in {now, last[p], Never}
  BY DEF IInv, TypeOK, Evaluate
<1>2. TypeOK'
  BY <1>1 DEF IInv, TypeOK, Evaluate
<1>3. AttemptInv'
  BY <1>1 DEF IInv, TypeOK, AttemptInv, Evaluate, Time
<1> QED
  BY <1>2, <1>3 DEF IInv

\* A start leaves the attempt or forgets it.
LEMMA StartIInv ==
    ASSUME IInv, NEW p \in Profiles, StartRun(p) \/ StartRefused(p) PROVE IInv'
<1> USE SchedulerAssumption DEF SchedulerAssumption, countVars
<1>1. /\ last' \in [Profiles -> Time \cup {Never}]
      /\ \A q \in Profiles : last'[q] \in {last[q], Never}
  BY DEF IInv, TypeOK, StartRun, StartRefused
<1>2. TypeOK'
  <2>1. CASE StartRun(p)
    <3>1. busy' \in [Profiles -> BOOLEAN] /\ fired' \in [Profiles -> Time]
      BY <2>1 DEF IInv, TypeOK, StartRun
    <3> QED
      BY <1>1, <2>1, <3>1 DEF IInv, TypeOK, StartRun
  <2>2. CASE StartRefused(p)
    BY <1>1, <2>2 DEF IInv, TypeOK, StartRefused
  <2> QED
    BY <2>1, <2>2
<1>3. AttemptInv'
  BY <1>1 DEF IInv, TypeOK, AttemptInv, StartRun, StartRefused, Time
<1> QED
  BY <1>2, <1>3 DEF IInv

\* Jobs and edits of profiles do not touch the attempts.
LEMMA OutsideIInv ==
    ASSUME IInv, NEW p \in Profiles,
           JobEnds(p) \/ OtherJob(p) \/ SetSchedule(p) \/ Delete(p)
    PROVE  IInv'
<1> USE SchedulerAssumption DEF SchedulerAssumption, loopVars, countVars
<1>1. UNCHANGED <<now, up, started, last>>
  BY DEF JobEnds, OtherJob, SetSchedule, Delete
<1>2. AttemptInv'
  BY <1>1 DEF IInv, AttemptInv
<1>3. ASSUME JobEnds(p) \/ OtherJob(p) PROVE TypeOK'
  <2>1. \E b \in BOOLEAN : busy' = [busy EXCEPT ![p] = b]
    BY <1>3, Zenon DEF JobEnds, OtherJob
  <2>2. busy' \in [Profiles -> BOOLEAN]
    BY <2>1 DEF IInv, TypeOK
  <2>3. others' \in 0 .. MaxOther
    BY <1>3 DEF IInv, TypeOK, JobEnds, OtherJob
  <2> QED
    BY <1>1, <1>3, <2>2, <2>3 DEF IInv, TypeOK, JobEnds, OtherJob
<1>4. ASSUME SetSchedule(p) PROVE TypeOK'
  <2>1. PICK s \in Schedules \cup {{}}, e \in BOOLEAN :
          profile' = [profile EXCEPT ![p] =
                        [status |-> "present", enabled |-> e, schedule |-> s]]
    BY <1>4 DEF SetSchedule
  <2>2. [status |-> "present", enabled |-> e, schedule |-> s] \in Profile
    BY DEF Profile
  <2>3. profile' \in [Profiles -> Profile]
    BY <2>1, <2>2 DEF IInv, TypeOK
  <2>4. since' \in [Profiles -> Time]
    BY <1>4 DEF IInv, TypeOK, SetSchedule
  <2> QED
    BY <1>1, <1>4, <2>3, <2>4 DEF IInv, TypeOK, SetSchedule
<1>5. ASSUME Delete(p) PROVE TypeOK'
  <2>1. [status |-> "deleted", enabled |-> FALSE, schedule |-> {}] \in Profile
    BY DEF Profile
  <2>2. profile' \in [Profiles -> Profile]
    BY <1>5, <2>1 DEF IInv, TypeOK, Delete
  <2> QED
    BY <1>1, <1>5, <2>2 DEF IInv, TypeOK, Delete
<1> QED
  BY <1>2, <1>3, <1>4, <1>5 DEF IInv

\* A crash forgets the attempts, and a restart begins now.
LEMMA RestartIInv == ASSUME IInv, Crash \/ Restart PROVE IInv'
<1> USE SchedulerAssumption DEF SchedulerAssumption, countVars
<1>1. CASE Crash
  <2>1. /\ last' \in [Profiles -> Time \cup {Never}]
        /\ \A p \in Profiles : last'[p] = Never
        /\ busy' \in [Profiles -> BOOLEAN]
        /\ crashes' \in 0 .. MaxCrashes
    BY <1>1 DEF IInv, TypeOK, Crash
  <2>2. TypeOK'
    BY <1>1, <2>1 DEF IInv, TypeOK, Crash
  <2>3. AttemptInv'
    BY <1>1, <2>1 DEF IInv, AttemptInv, Crash
  <2> QED
    BY <2>2, <2>3 DEF IInv
<1>2. CASE Restart
  <2>1. TypeOK'
    BY <1>2 DEF IInv, TypeOK, Restart
  <2>2. AttemptInv'
    BY <1>2 DEF IInv, TypeOK, AttemptInv, Restart, Time
  <2> QED
    BY <2>1, <2>2 DEF IInv
<1> QED
  BY <1>1, <1>2

\* Every step keeps the invariant.
LEMMA NextIInv == ASSUME IInv, [Next]_vars PROVE IInv'
<1>1. CASE Next
  BY <1>1, AdvanceIInv, EvaluateIInv, StartIInv, OutsideIInv, RestartIInv DEF Next
<1>2. CASE UNCHANGED vars
  BY <1>2 DEF IInv, TypeOK, AttemptInv, vars, loopVars, countVars, Present
<1> QED
  BY <1>1, <1>2

\* The types and the bookkeeping of last_attempted hold in every reachable
\* state.
THEOREM Inductive == Spec => []IInv
<1>1. Init => IInv
  BY InitIInv
<1>2. IInv /\ [Next]_vars => IInv'
  BY NextIInv
<1> QED
  BY <1>1, <1>2, PTL DEF Spec

\* Every variable keeps its type whatever the schedules, crashes and jobs.
THEOREM TypeCorrect == Spec => []TypeOK
<1>1. IInv => TypeOK
  BY DEF IInv
<1> QED
  BY <1>1, Inductive, PTL

-----------------------------------------------------------------------------
(* The missed-run policy.                                                    *)

\* Only Evaluate adds a due profile, and what it adds fires.
LEMMA OnlyEvaluateAdds ==
    ASSUME Next, NEW p \in due' \ due PROVE Evaluate /\ p \in Profiles /\ Fires(p)
<1>1. Evaluate
  BY DEF Next, Advance, Crash, Restart, StartRun, StartRefused, JobEnds, OtherJob,
         SetSchedule, Delete, loopVars
<1> QED
  BY <1>1 DEF Evaluate

\* The floor of a profile is never before started_at.
LEMMA FloorAboveStart ==
    ASSUME IInv, NEW p \in Profiles PROVE Floor(p) \in Nat /\ started <= Floor(p)
  BY SchedulerAssumption DEF SchedulerAssumption, IInv, TypeOK, AttemptInv, Floor, Time

\* evaluate never decides on a run for an instant that passed while the engine
\* was down, whatever the schedules, edits, refusals and restarts.
THEOREM NoCatchUpProved == Spec => NoCatchUp
<1> DEFINE A == \A p \in due' \ due :
                   \E t \in profile[p].schedule : started < t /\ t <= now
<1>1. ASSUME IInv, Next PROVE A
  <2> TAKE p \in due' \ due
  <2>1. p \in Profiles /\ Fires(p)
    BY <1>1, OnlyEvaluateAdds
  <2>2. PICK t \in profile[p].schedule : Floor(p) < t /\ t <= now
    BY <2>1 DEF Fires, ShouldFire
  <2>3. profile[p] \in Profile
    BY <1>1, <2>1 DEF IInv, TypeOK
  <2>4. t \in Nat
    <3>1. profile[p].schedule \in Schedules \cup {{}}
      BY <2>3 DEF Profile
    <3>2. t \in 1 .. MaxTime
      BY <2>2, <3>1, SchedulerAssumption, Zenon DEF SchedulerAssumption
    <3> QED
      BY <3>2
  <2>5. started < t
    BY <1>1, <2>1, <2>2, <2>4, FloorAboveStart DEF IInv, TypeOK, Time
  <2> QED
    BY <2>2, <2>5
<1>2. IInv /\ [Next]_vars => [A]_vars
  BY <1>1
<1> QED
  BY <1>2, Inductive, PTL DEF Spec, NoCatchUp
-----------------------------------------------------------------------------
(* One scheduled start for an instant.                                       *)

\* An instant of the schedule lies between the last scheduled start and this tick.
Between(p) == \E t \in profile[p].schedule : fired[p] < t /\ t <= evaluated

\* The last scheduled start was under the present schedule.
Comparable(p) == Present(p) /\ fired[p] > 0 /\ since[p] <= fired[p]

\* A due profile has this tick as its attempt; what was started is not after the tick
\* of its start; and a profile that is due, or whose attempt was forgotten after a
\* refusal so that its floor is before its last start, has an instant to be run for.
FireInv ==
    /\ evaluated <= now
    /\ \A p \in Profiles :
          /\ fired[p] <= evaluated /\ since[p] <= now
          /\ profile[p].status = "none" => fired[p] = 0 /\ p \notin due
          /\ p \in due => up /\ last[p] = evaluated
          /\ Comparable(p) /\ p \in due => Between(p)
          /\ Comparable(p) /\ up /\ Floor(p) < fired[p] => Between(p)

\* The instants of a schedule are numbers.
LEMMA Instants ==
    ASSUME IInv, NEW p \in Profiles, NEW t \in profile[p].schedule PROVE t \in Nat
<1>1. profile[p].schedule \in Schedules \cup {{}}
  BY DEF IInv, TypeOK, Profile
<1>2. t \in 1 .. MaxTime
  BY <1>1, SchedulerAssumption, Zenon DEF SchedulerAssumption
<1> QED
  BY <1>2

\* The clock and the steps of jobs that leave the scheduler's state alone.
LEMMA QuietFire ==
    ASSUME IInv, FireInv, now' \in Nat, now <= now',
           UNCHANGED <<up, loopVars, profile, fired, since>>
    PROVE  FireInv'
<1>1. now \in Nat /\ evaluated \in Nat /\ \A p \in Profiles : since[p] \in Nat
  BY DEF IInv, TypeOK, Time
<1>2. evaluated' <= now' /\ \A p \in Profiles : since'[p] <= now'
  BY <1>1 DEF FireInv, loopVars
<1> QED
  BY <1>2 DEF FireInv, Comparable, Between, Present, Floor, loopVars

\* evaluate: what fires has an instant after its floor, and if the floor is before the
\* last start the invariant already had one.
LEMMA EvaluateFire ==
    ASSUME IInv, FireInv, Evaluate PROVE FireInv'
<1>1. /\ now \in Nat /\ evaluated \in Nat /\ due = {} /\ evaluated' = now /\ up /\ up'
      /\ now' = now /\ evaluated <= now
      /\ UNCHANGED <<profile, fired, since, started>>
  BY DEF IInv, TypeOK, Time, Evaluate, FireInv
<1>2. ASSUME NEW p \in Profiles
      PROVE  /\ fired'[p] <= evaluated' /\ since'[p] <= now'
             /\ profile'[p].status = "none" => fired'[p] = 0 /\ p \notin due'
             /\ p \in due' => up' /\ last'[p] = evaluated'
             /\ Comparable(p)' /\ p \in due' => Between(p)'
             /\ Comparable(p)' /\ up' /\ Floor(p)' < fired'[p] => Between(p)'
  <2>1. /\ fired[p] \in Nat /\ fired[p] <= evaluated /\ since[p] <= now
        /\ profile[p].status = "none" => fired[p] = 0
        /\ Comparable(p) /\ Floor(p) < fired[p] => Between(p)
    BY <1>1 DEF IInv, TypeOK, Time, FireInv
  <2>2. /\ p \in due' <=> Fires(p)
        /\ last'[p] = IF Fires(p) THEN now ELSE IF Present(p) THEN last[p] ELSE Never
    BY DEF Evaluate
  <2>3. fired[p] <= now
    BY <1>1, <2>1
  <2>4. Comparable(p)' <=> Comparable(p)
    BY <1>1 DEF Comparable, Present
  <2>5. Between(p) => Between(p)'
    <3> SUFFICES ASSUME Between(p) PROVE Between(p)'
      OBVIOUS
    <3>1. PICK t \in profile[p].schedule : fired[p] < t /\ t <= evaluated
      BY DEF Between
    <3>2. t \in Nat
      BY Instants
    <3>3. t <= now
      BY <1>1, <3>1, <3>2
    <3> QED
      BY <1>1, <3>1, <3>3 DEF Between
  <2>6. ASSUME Fires(p), Comparable(p) PROVE Between(p)'
    <3>1. PICK t \in profile[p].schedule : Floor(p) < t /\ t <= now
      BY <2>6 DEF Fires, ShouldFire
    <3>2. t \in Nat /\ Floor(p) \in Nat
      BY Instants, FloorAboveStart
    <3>3. CASE Floor(p) < fired[p]
      BY <2>1, <2>5, <2>6, <3>3
    <3>4. CASE ~(Floor(p) < fired[p])
      <4>1. fired[p] < t
        BY <2>1, <3>1, <3>2, <3>4
      <4> QED
        BY <1>1, <3>1, <4>1 DEF Between
    <3> QED
      BY <3>3, <3>4
  <2>7. Floor(p)' = IF last'[p] = Never THEN started ELSE last'[p]
    BY <1>1 DEF Floor
  <2>8. CASE Fires(p)
    <3>1. Floor(p)' = now
      BY <1>1, <2>2, <2>7, <2>8, SchedulerAssumption DEF SchedulerAssumption
    <3>2. profile[p].status # "none"
      BY <2>8 DEF Fires, Present
    <3>3. ~(Floor(p)' < fired'[p])
      BY <1>1, <2>1, <2>3, <3>1
    <3> QED
      BY <1>1, <2>1, <2>2, <2>3, <2>4, <2>6, <2>8, <3>2, <3>3
  <2>9. CASE ~Fires(p)
    <3>1. Comparable(p) => last'[p] = last[p]
      BY <2>2, <2>9 DEF Comparable
    <3>2. Comparable(p) => Floor(p)' = Floor(p)
      BY <2>7, <3>1 DEF Floor
    <3> QED
      BY <1>1, <2>1, <2>2, <2>3, <2>4, <2>5, <2>9, <3>2
  <2> QED
    BY <2>8, <2>9
<1> QED
  BY <1>1, <1>2 DEF FireInv

\* A start that succeeds moves the last start up to the attempt of this tick.
LEMMA StartRunFire ==
    ASSUME IInv, FireInv, NEW p \in Profiles, StartRun(p) PROVE FireInv'
<1>1. /\ p \in due /\ due' = due \ {p} /\ fired' = [fired EXCEPT ![p] = evaluated]
      /\ UNCHANGED <<now, up, started, last, evaluated, profile, since>>
  BY DEF StartRun
<1>2. fired'[p] = evaluated /\ \A q \in Profiles \ {p} : fired'[q] = fired[q]
  BY <1>1 DEF IInv, TypeOK
<1>3. evaluated \in Nat /\ last[p] = evaluated /\ profile[p].status # "none"
  BY <1>1 DEF IInv, TypeOK, Time, FireInv
<1>4. Floor(p)' = evaluated
  BY <1>1, <1>3, SchedulerAssumption DEF Floor, SchedulerAssumption
<1>5. ~(Floor(p)' < fired'[p]) /\ fired'[p] <= evaluated
  BY <1>2, <1>3, <1>4
<1>6. \A q \in Profiles \ {p} : /\ Comparable(q)' <=> Comparable(q)
                                /\ Between(q)' <=> Between(q)
                                /\ Floor(q)' = Floor(q)
  BY <1>1, <1>2 DEF Comparable, Between, Floor, Present
<1>7. ASSUME NEW q \in Profiles
      PROVE  /\ fired'[q] <= evaluated' /\ since'[q] <= now'
             /\ profile'[q].status = "none" => fired'[q] = 0 /\ q \notin due'
             /\ q \in due' => up' /\ last'[q] = evaluated'
             /\ Comparable(q)' /\ q \in due' => Between(q)'
             /\ Comparable(q)' /\ up' /\ Floor(q)' < fired'[q] => Between(q)'
  <2>1. CASE q = p
    BY <1>1, <1>3, <1>5, <2>1 DEF FireInv
  <2>2. CASE q # p
    BY <1>1, <1>2, <1>6, <2>2 DEF FireInv
  <2> QED
    BY <2>1, <2>2
<1> QED
  BY <1>1, <1>7 DEF FireInv

\* A start that the registry refuses forgets the attempt; the instant it was for is
\* still there.
LEMMA StartRefusedFire ==
    ASSUME IInv, FireInv, NEW p \in Profiles, StartRefused(p) PROVE FireInv'
<1>1. /\ p \in due /\ due' = due \ {p} /\ last' = [last EXCEPT ![p] = Never]
      /\ UNCHANGED <<now, up, started, evaluated, profile, fired, since>>
  BY DEF StartRefused
<1>2. last'[p] = Never /\ \A q \in Profiles \ {p} : last'[q] = last[q]
  BY <1>1 DEF IInv, TypeOK
<1>3. \A q \in Profiles : /\ Comparable(q)' <=> Comparable(q)
                          /\ Between(q)' <=> Between(q)
  BY <1>1 DEF Comparable, Between, Present
<1>4. \A q \in Profiles \ {p} : Floor(q)' = Floor(q)
  BY <1>1, <1>2 DEF Floor
<1>5. Comparable(p) => Between(p)
  BY <1>1 DEF FireInv
<1> QED
  BY <1>1, <1>2, <1>3, <1>4, <1>5 DEF FireInv

\* An edited schedule: a last start that still counts was at this very instant, and
\* then neither a due profile nor a floor before it was possible.
LEMMA SetScheduleFire ==
    ASSUME IInv, FireInv, NEW p \in Profiles, SetSchedule(p) PROVE FireInv'
<1>1. /\ since' = [since EXCEPT ![p] = now] /\ Present(p)' /\ profile[p].status # "deleted"
      /\ \A q \in Profiles \ {p} : profile'[q] = profile[q]
      /\ UNCHANGED <<now, up, started, last, due, evaluated, fired>>
  BY DEF SetSchedule, loopVars, Present, IInv, TypeOK
<1>2. since'[p] = now /\ \A q \in Profiles \ {p} : since'[q] = since[q]
  BY <1>1 DEF IInv, TypeOK
<1>3. /\ now \in Nat /\ evaluated \in Nat /\ fired[p] \in Nat /\ since[p] \in Nat
      /\ evaluated <= now /\ fired[p] <= evaluated /\ since[p] <= now
  BY DEF IInv, TypeOK, Time, FireInv
<1>4. ASSUME fired[p] > 0, now <= fired[p] PROVE p \notin due /\ ~(up /\ Floor(p) < fired[p])
  <2>1. fired[p] = evaluated /\ since[p] <= fired[p]
    BY <1>3, <1>4
  <2>2. Present(p)
    <3>1. profile[p].status # "none"
      BY <1>4 DEF FireInv
    <3> QED
      BY <1>1, <3>1 DEF Present, IInv, TypeOK, Profile
  <2>3. Comparable(p)
    BY <1>4, <2>1, <2>2 DEF Comparable
  <2>4. ~Between(p)
    <3> SUFFICES ASSUME NEW t \in profile[p].schedule, fired[p] < t, t <= evaluated
                 PROVE  FALSE
      BY DEF Between
    <3> QED
      BY <1>3, <2>1, Instants
  <2> QED
    BY <2>3, <2>4 DEF FireInv
<1>5. ASSUME Comparable(p)' PROVE p \notin due' /\ ~(up' /\ Floor(p)' < fired'[p])
  <2>1. fired[p] > 0 /\ now <= fired[p]
    BY <1>1, <1>2, <1>5 DEF Comparable
  <2>2. Floor(p)' = Floor(p)
    BY <1>1 DEF Floor
  <2> QED
    BY <1>1, <1>4, <2>1, <2>2
<1>6. \A q \in Profiles \ {p} : /\ Comparable(q)' <=> Comparable(q)
                                /\ Between(q)' <=> Between(q)
                                /\ Floor(q)' = Floor(q)
  BY <1>1, <1>2 DEF Comparable, Between, Floor, Present
<1>7. ASSUME NEW q \in Profiles
      PROVE  /\ fired'[q] <= evaluated' /\ since'[q] <= now'
             /\ profile'[q].status = "none" => fired'[q] = 0 /\ q \notin due'
             /\ q \in due' => up' /\ last'[q] = evaluated'
             /\ Comparable(q)' /\ q \in due' => Between(q)'
             /\ Comparable(q)' /\ up' /\ Floor(q)' < fired'[q] => Between(q)'
  <2>1. CASE q = p
    <3>1. since'[p] <= now' /\ fired'[p] <= evaluated' /\ profile'[p].status # "none"
      BY <1>1, <1>2, <1>3 DEF Present
    <3> QED
      BY <1>1, <1>5, <2>1, <3>1 DEF FireInv
  <2>2. CASE q # p
    BY <1>1, <1>2, <1>6, <2>2 DEF FireInv
  <2> QED
    BY <2>1, <2>2
<1> QED
  BY <1>1, <1>7 DEF FireInv

\* A deleted profile is not compared any more.
LEMMA DeleteFire ==
    ASSUME IInv, FireInv, NEW p \in Profiles, Delete(p) PROVE FireInv'
<1>1. /\ profile'[p].status = "deleted"
      /\ \A q \in Profiles \ {p} : profile'[q] = profile[q]
      /\ UNCHANGED <<now, up, started, last, due, evaluated, fired, since>>
  BY DEF Delete, loopVars, IInv, TypeOK
<1>2. ~Comparable(p)'
  BY <1>1 DEF Comparable, Present
<1>3. \A q \in Profiles \ {p} : /\ Comparable(q)' <=> Comparable(q)
                                /\ Between(q)' <=> Between(q)
                                /\ Floor(q)' = Floor(q)
  BY <1>1 DEF Comparable, Between, Floor, Present
<1>4. ASSUME NEW q \in Profiles
      PROVE  /\ fired'[q] <= evaluated' /\ since'[q] <= now'
             /\ profile'[q].status = "none" => fired'[q] = 0 /\ q \notin due'
             /\ q \in due' => up' /\ last'[q] = evaluated'
             /\ Comparable(q)' /\ q \in due' => Between(q)'
             /\ Comparable(q)' /\ up' /\ Floor(q)' < fired'[q] => Between(q)'
  <2>1. CASE q = p
    BY <1>1, <1>2, <2>1 DEF FireInv
  <2>2. CASE q # p
    BY <1>1, <1>3, <2>2 DEF FireInv
  <2> QED
    BY <2>1, <2>2
<1> QED
  BY <1>1, <1>4 DEF FireInv

\* A restarted engine has the restart as its floor, which is after every start.
LEMMA RestartFire ==
    ASSUME IInv, FireInv, Crash \/ Restart PROVE FireInv'
<1>1. UNCHANGED <<now, evaluated, profile, fired, since>>
  BY DEF Crash, Restart
<1>2. \A p \in Profiles : Comparable(p)' <=> Comparable(p)
  BY <1>1 DEF Comparable, Present
<1>3. CASE Crash
  <2>1. ~up' /\ due' = {}
    BY <1>3 DEF Crash
  <2> QED
    BY <1>1, <2>1 DEF FireInv
<1>4. CASE Restart
  <2>1. ~up /\ started' = now /\ last' = last /\ due' = due
    BY <1>4 DEF Restart
  <2>2. ASSUME NEW p \in Profiles PROVE p \notin due' /\ ~(Floor(p)' < fired'[p])
    <3>1. p \notin due /\ last[p] = Never
      BY <2>1 DEF FireInv, IInv, AttemptInv
    <3>2. Floor(p)' = now
      BY <2>1, <3>1 DEF Floor
    <3>3. now \in Nat /\ fired[p] \in Nat /\ evaluated \in Nat
      BY DEF IInv, TypeOK, Time
    <3>4. fired[p] <= now
      BY <3>3 DEF FireInv
    <3> QED
      BY <1>1, <2>1, <3>1, <3>2, <3>3, <3>4
  <2> QED
    BY <1>1, <2>2 DEF FireInv
<1> QED
  BY <1>3, <1>4

\* The bookkeeping of scheduled starts holds in every reachable state.
THEOREM FiringInductive == Spec => []FireInv
<1>1. Init => FireInv
  BY DEF Init, FireInv, Comparable
<1>2. IInv /\ FireInv /\ [Next]_vars => FireInv'
  <2> SUFFICES ASSUME IInv, FireInv, [Next]_vars PROVE FireInv'
    OBVIOUS
  <2>1. now \in Nat /\ now <= now
    BY DEF IInv, TypeOK, Time
  <2>2. CASE UNCHANGED vars
    <3>1. UNCHANGED <<now, up, loopVars, profile, fired, since>>
      BY <2>2 DEF vars
    <3> QED
      BY <2>1, <3>1, QuietFire
  <2>3. CASE Advance
    <3>1. now' = now + 1 /\ UNCHANGED <<up, loopVars, profile, fired, since>>
      BY <2>3 DEF Advance
    <3> QED
      BY <2>1, <3>1, QuietFire
  <2>4. ASSUME NEW p \in Profiles, JobEnds(p) \/ OtherJob(p) PROVE FireInv'
    <3>1. UNCHANGED <<now, up, loopVars, profile, fired, since>>
      BY <2>4 DEF JobEnds, OtherJob
    <3> QED
      BY <2>1, <3>1, QuietFire
  <2> QED
    BY <2>2, <2>3, <2>4, EvaluateFire, StartRunFire, StartRefusedFire, SetScheduleFire,
       DeleteFire, RestartFire DEF Next
<1> QED
  BY <1>1, <1>2, Inductive, PTL DEF Spec

\* Two scheduled starts of a profile under one schedule have an instant of it between
\* them, also when the registry refused starts in between and retry() forgot the
\* attempt.
THEOREM NoDoubleFireProved == Spec => NoDoubleFire
<1> DEFINE A == \A p \in Profiles :
                  StartRun(p) /\ fired[p] > 0 /\ since[p] <= fired[p] /\ Present(p) =>
                    \E t \in profile[p].schedule : fired[p] < t /\ t <= evaluated
<1>1. ASSUME FireInv PROVE A
  BY <1>1 DEF FireInv, Comparable, Between, StartRun
<1>2. FireInv /\ [Next]_vars => [A]_vars
  BY <1>1
<1> QED
  BY <1>2, FiringInductive, PTL DEF Spec, NoDoubleFire
=============================================================================
