--------------------------- MODULE Update_proofs ---------------------------
(***************************************************************************)
(* Proofs about Update.                                                    *)
(***************************************************************************)
EXTENDS Update, WellFoundedInduction, FiniteSetTheorems, TLAPS

-----------------------------------------------------------------------------
(* The inductive invariant                                                 *)

\* A transaction past its first test is under way, or has failed.
Txn == unit.st = "running" /\ unit.kind = "txn" /\ unit.pc # "init"

Failed == unit.st = "failed" /\ unit.kind = "txn" /\ unit.pc # "init"

\* What the transaction found, and what it is to bring about.
Before == live = unit.backup /\ profile = unit.gen /\ current = unit.old

After ==
    /\ live = Pair(unit.stage, unit.stage) /\ current = unit.stage
    /\ profile \in DOMAIN gens => gens[profile] = unit.stage

\* The behaviours AllOrNothing and CommitHonest speak of, and those of PairTruth.
Steady == power = "on" /\ tainted \subseteq {"stop", "recovery"}

Clean == power = "on" /\ tainted = {}

\* A recovery that fails may be made good by the next one.
Sound == power = "on" /\ tainted \subseteq {"recovery"}

\* A script is where its kind allows; one that is being stopped, or that a reboot
\* has left running, rolls back, and only a stop leaves its activation to another.
UnitInv ==
    /\ unit.kind = "txn" => unit.pc \in TxnPc \cup RollbackPc
    /\ unit.kind # "txn" => unit.pc \in SwitchPc
    /\ unit.kind = "txn" /\ unit.pc = "init" => unit.set = {}
    /\ unit.st = "running" /\ (unit.stopping \/ power = "down") =>
          unit.kind = "txn" /\ unit.pc \in RollbackPc
    /\ unit.st = "running" /\ unit.stopping => "stop" \in tainted \/ power = "down"
    /\ unit.st = "running" /\ unit.detach => unit.stopping
    /\ detached # {} => "stop" \in tainted

\* An activation belongs to a script or a detached rollback that waits for it, and
\* from the flip on its system is the active one.
ActInv ==
    /\ act.by = "none" => act.pc = "done"
    /\ act.by \in {"service", "boot"} => act.pc \in {"recover", "lock"}
    /\ act.by = "unit" =>
          /\ unit.st = "running"
          /\ unit.kind = "txn" => unit.pc \in {"act", "recover", "rbact"}
          /\ unit.kind # "txn" => unit.pc = "act"
    /\ act.by = "detached" => \E d \in detached : d.pc = "act" /\ d.old = act.to
    /\ act.by # "none" /\ act.pc \in {"recover", "lock", "done"} => act.to = current

\* While a detached rollback is to come, its marker keeps everyone else away, and
\* the failed script it finishes has restored the pair and the profile.
DetachedInv ==
    Steady /\ detached # {} =>
       /\ marker /\ ~Txn
       /\ \A d, e \in detached : d = e
       /\ act.by = "detached" => act.pc # "lock"
       /\ Failed =>
             /\ live = unit.backup /\ profile = unit.gen
             /\ \A d \in detached :
                   d.old = unit.old /\ (d.pc = "wait" => current = d.old)

\* The flags of the script say what it has touched.
FlagInv ==
    Steady /\ Txn =>
       /\ "marker" \in unit.set /\ unit.pc # "unmarked" => marker
       /\ unit.pc = "marked" => marker
       /\ unit.pc \in {"build", "mark", "marked"} => unit.set = {}
       /\ unit.pc = "flagged" => unit.set = {"marker"}
       /\ unit.pc \in {"nix", "lock", "installed"} => unit.set = {"marker", "live"}
       /\ unit.pc \in {"set", "act", "health", "unmark", "unmarked", "rbgen", "rbact", "rbwait"}
             => unit.set = {"marker", "live", "profile"}
       /\ unit.pc \in {"recover", "cmp"} => unit.set = {"live", "profile"}
       /\ unit.pc = "rbmark" =>
             unit.set \in {{}, {"marker"}, {"marker", "live"}, {"marker", "live", "profile"},
                           {"live", "profile"}}
       /\ unit.pc \in {"rbnix", "rblock", "rbend"} =>
             unit.set \in {{}, {"marker"}, {"marker", "live"}, {"marker", "live", "profile"}}
       /\ "live" \notin unit.set => Before
       /\ "profile" \notin unit.set => profile = unit.gen /\ current = unit.old
       /\ unit.set = {"live", "profile"} => After

\* How far the script has come, and which activation it waits for.
StepInv ==
    Steady /\ Txn =>
       /\ act.by \in {"none", "unit"}
       /\ act.by = "unit" => act.pc # "lock"
       /\ act.by = "unit" /\ unit.pc = "act" => act.to = unit.stage
       /\ act.by = "unit" /\ unit.pc = "recover" => act.pc \notin {"entry", "flip"}
       /\ act.by = "unit" /\ unit.pc = "rbact" => act.to = unit.old
       /\ unit.pc = "lock" => live.nix = unit.stage
       /\ unit.pc \in {"installed", "set", "act", "health", "unmark", "unmarked"} =>
             live = Pair(unit.stage, unit.stage)
       /\ unit.pc \in {"act", "health", "unmark", "unmarked"} =>
             (profile \in DOMAIN gens => gens[profile] = unit.stage)
       /\ unit.pc \in {"health", "unmark", "unmarked"} => current = unit.stage
       /\ unit.pc = "rblock" /\ "live" \in unit.set => live.nix = unit.backup.nix
       /\ unit.pc \in {"rbgen", "rbact", "rbend"} /\ unit.ok => live = unit.backup
       /\ unit.pc \in {"rbact", "rbend"} /\ unit.ok => profile = unit.gen
       /\ unit.pc = "rbwait" => Before
       /\ unit.pc = "rbend" /\ unit.ok /\ ~unit.detach => current = unit.old

\* A script that failed without its marker has undone everything, or finished.
FailInv ==
    Steady /\ Failed =>
       /\ act.by \in {"none", "detached"}
       /\ marker \/ Before \/ After

\* Between transactions the pair is that of the active system, or the recovery of
\* an activation is about to make it so; a transaction has backed up such a pair.
PairInv ==
    /\ Clean /\ Txn => unit.backup = Pair(unit.old, unit.old)
    /\ Clean /\ ~Txn /\ ~marker /\ act.pc \in {"entry", "flip", "done", "failed"} =>
          live = Pair(current, current)
    /\ Sound /\ ~Txn /\ ~marker /\ act.pc = "lock" => live.nix = current

Inv == UnitInv /\ ActInv /\ DetachedInv /\ FlagInv /\ StepInv /\ FailInv /\ PairInv

IInv == TypeOK /\ Inv

-----------------------------------------------------------------------------
USE UpdateAssumption
USE DEF TxnPc, FlagPc, RollbackPc, SwitchPc, Kind, Pair, disk, run, engine

\* The next generation's number is the number of an existing one, plus one: the
\* largest member of a finite set of numbers is a member.
LEMMA LargestMember ==
  ASSUME NEW S \in SUBSET (1 .. MaxGen), S # {}
  PROVE  Max(S) \in S
<1> DEFINE above(g) == {h \in S : h > g}
           family == {above(g) : g \in S}
<1>1. IsFiniteSet(S)
  <2>1. IsFiniteSet(1 .. MaxGen)
    BY FS_Interval
  <2> QED
    BY <2>1, FS_Subset
<1>0. S \subseteq Int
  OBVIOUS
<1>2. family \subseteq SUBSET S /\ family # {}
  OBVIOUS
<1>3. IsWellFoundedOn(StrictSubsetOrdering(S), SUBSET S)
  BY <1>1, FS_StrictSubsetOrderingWellFounded, FS_FiniteSubsetsOfFinite
<1>4. PICK U \in family : \A V \in family : ~(<<V, U>> \in StrictSubsetOrdering(S))
  <2> HIDE DEF family
  <2> QED
    BY <1>2, <1>3, WFMin
<1>5. PICK g \in S : U = above(g)
  OBVIOUS
<1>6. ASSUME NEW h \in S, h > g PROVE FALSE
  <2>1. above(h) \in family
    OBVIOUS
  <2>2. above(h) \subseteq above(g) /\ h \in above(g) /\ h \notin above(h)
    <3>1. g \in Int /\ h \in Int
      BY <1>0
    <3>2. ASSUME NEW k \in S, k > h PROVE k > g
      BY <1>0, <1>6, <3>1, <3>2
    <3>3. ~(h > h)
      BY <3>1
    <3> QED
      BY <1>6, <3>2, <3>3
  <2>3. <<above(h), U>> \in StrictSubsetOrdering(S)
    <3>1. above(h) \in SUBSET S /\ U \in SUBSET S
      BY <1>5
    <3>2. above(h) \subseteq U /\ above(h) # U
      BY <1>5, <2>2
    <3> HIDE DEF above
    <3> QED
      BY <3>1, <3>2 DEF StrictSubsetOrdering
  <2> QED
    BY <1>4, <2>1, <2>3
<1>7. \A h \in S : g >= h
  BY <1>6, <1>0
<1> QED
  BY <1>7 DEF Max

\* A step that touches nothing the invariant speaks of.
LEMMA Frame ==
  ASSUME IInv,
         UNCHANGED <<gens, profile, current, live, marker, unit, detached, act, power, tainted>>
  PROVE  Inv'
  BY DEF IInv, Inv, UnitInv, ActInv, DetachedInv, FlagInv, StepInv, FailInv, PairInv,
         Txn, Failed, Before, After, Steady, Clean, Sound

\* The idle unit, activation and request are of their types.
LEMMA Idle ==
  /\ NoUnit \in Unit /\ NoUnit.st = "none" /\ NoUnit.kind = "txn" /\ NoUnit.pc = "init"
  /\ NoUnit.set = {} /\ ~NoUnit.detach /\ ~NoUnit.stopping
  /\ NoAct \in Activation /\ NoAct.by = "none" /\ NoAct.pc = "done"
  /\ NoReq \in Request
  BY DEF NoUnit, NoAct, NoReq, Unit, Activation, Request, FlakePair, Gen

\* A script that ends badly leaves its unit behind, otherwise as it was.
LEMMA EndedUnit ==
  ASSUME unit \in Unit
  PROVE  LET u == Ended(FALSE) IN
         /\ u \in Unit /\ u.st = "failed" /\ ~u.stopping
         /\ u.kind = unit.kind /\ u.pc = unit.pc /\ u.old = unit.old /\ u.gen = unit.gen
         /\ u.backup = unit.backup /\ u.stage = unit.stage /\ u.set = unit.set
         /\ u.detach = unit.detach
  BY DEF Ended, Unit

\* A step of a switch script, or of a request, away from any transaction.
LEMMA Aside ==
  ASSUME IInv, ~Txn, ~Txn', ~Failed',
         UNCHANGED <<current, live, marker, detached, power, tainted>>,
         \/ UNCHANGED act
         \/ act.pc \in {"done", "failed"} /\ act'.pc \in {"entry", "done"}
  PROVE  DetachedInv' /\ FlagInv' /\ StepInv' /\ FailInv' /\ PairInv'
<1>1. DetachedInv' /\ FlagInv' /\ StepInv' /\ FailInv'
  BY DEF IInv, Inv, DetachedInv, FlagInv, StepInv, FailInv, Steady
<1>2. PairInv'
  BY DEF IInv, Inv, PairInv, Clean, Sound
<1> QED
  BY <1>1, <1>2

-----------------------------------------------------------------------------
(* Activations and the recovery service                                    *)

\* A step of the activation under way, of which the active system may be another
\* afterwards and the pair half or wholly recovered.
ActGoes ==
    /\ act.by # "none" /\ act' \in Activation /\ act'.by = act.by /\ act'.to = act.to
    /\ UNCHANGED <<gens, profile, marker, unit, detached, power, tainted>>

\* switch-to-configuration has written the boot entry: nothing it concerns is read.
LEMMA ActEntry_Inv ==
  ASSUME IInv, ActEntry
  PROVE  IInv'
<1>1. ActGoes /\ act.pc = "entry" /\ act'.pc = "flip" /\ UNCHANGED <<current, live>>
  BY DEF IInv, TypeOK, Inv, ActInv, ActEntry, ActGoes, Activation
<1>2. TypeOK'
  BY <1>1 DEF IInv, TypeOK, ActEntry, ActGoes, Activation
<1>3. UnitInv' /\ ActInv' /\ DetachedInv'
  BY <1>1 DEF IInv, Inv, UnitInv, ActInv, DetachedInv, Steady, Txn, Failed, ActGoes
<1>4. FlagInv' /\ StepInv' /\ FailInv'
  BY <1>1 DEF IInv, Inv, FlagInv, StepInv, FailInv, Steady, Txn, Failed, Before, After, ActGoes
<1>5. PairInv'
  BY <1>1 DEF IInv, Inv, PairInv, Clean, Sound, Txn, ActGoes
<1> QED
  BY <1>2, <1>3, <1>4, <1>5 DEF IInv, Inv

\* The flip makes the activation's system the active one; the marker, or a recovery
\* still to come, answers for the pair.
LEMMA ActFlip_Inv ==
  ASSUME IInv, ActFlip
  PROVE  IInv'
<1>1. /\ ActGoes /\ act.pc = "flip" /\ UNCHANGED live /\ current' = act.to
      /\ act'.pc = IF act.to = current /\ recovered THEN "done" ELSE "recover"
  BY DEF IInv, TypeOK, Inv, ActInv, ActFlip, ActGoes, Activation
<1>2. TypeOK'
  BY <1>1 DEF IInv, TypeOK, ActFlip, ActGoes, Activation
<1>3. UnitInv' /\ ActInv'
  BY <1>1 DEF IInv, Inv, UnitInv, ActInv, ActGoes
<1>4. ASSUME Steady, Txn PROVE unit.pc \in {"act", "rbact"}
  BY <1>1, <1>4 DEF IInv, Inv, ActInv, StepInv, Txn, ActGoes
<1>5. DetachedInv'
  BY <1>1 DEF IInv, Inv, DetachedInv, ActInv, FailInv, Steady, Txn, Failed, ActGoes
<1>6. FlagInv'
  <2>1. ASSUME Steady, Txn PROVE unit.set = {"marker", "live", "profile"}
    BY <1>4, <2>1 DEF IInv, Inv, FlagInv
  <2>2. ASSUME Steady, Txn
        PROVE  /\ "profile" \in unit.set /\ "live" \in unit.set
               /\ unit.set # {"live", "profile"}
    BY <2>1, <2>2
  <2> QED
    BY <1>1, <1>4, <2>1, <2>2 DEF IInv, Inv, FlagInv, Steady, Txn, ActGoes
<1>7. StepInv'
  BY <1>1, <1>4 DEF IInv, Inv, StepInv, Steady, Txn, ActGoes
<1>8. FailInv'
  BY <1>1 DEF IInv, Inv, FailInv, DetachedInv, ActInv, Steady, Failed, ActGoes
<1>9. PairInv'
  BY <1>1 DEF IInv, Inv, PairInv, Clean, Sound, Txn, ActGoes
<1> QED
  BY <1>2, <1>3, <1>5, <1>6, <1>7, <1>8, <1>9 DEF IInv, Inv

\* An activation that fails has changed nothing the invariant relates.
LEMMA ActFails_Inv ==
  ASSUME IInv, ActFails
  PROVE  IInv'
<1>1. /\ ActGoes /\ act.pc \in {"entry", "flip"} /\ act'.pc = "failed"
      /\ UNCHANGED <<current, live>>
  BY DEF IInv, TypeOK, Inv, ActInv, ActFails, ActGoes, Activation
<1>2. TypeOK'
  BY <1>1 DEF IInv, TypeOK, ActFails, ActGoes
<1>3. UnitInv' /\ ActInv' /\ DetachedInv'
  BY <1>1 DEF IInv, Inv, UnitInv, ActInv, DetachedInv, Steady, Txn, Failed, ActGoes
<1>4. FlagInv' /\ StepInv' /\ FailInv'
  BY <1>1 DEF IInv, Inv, FlagInv, StepInv, FailInv, Steady, Txn, Failed, Before, After, ActGoes
<1>5. PairInv'
  BY <1>1 DEF IInv, Inv, PairInv, Clean, Sound, Txn, ActGoes
<1> QED
  BY <1>2, <1>3, <1>4, <1>5 DEF IInv, Inv

\* How a recovery ends, well or badly: only what `tainted` says of recoveries changes,
\* and a recovery that has made good what another missed ran outside a transaction.
LEMMA RecoverEnd ==
  ASSUME TypeOK, NEW wrote \in BOOLEAN, RecoverDone(wrote) \/ RecoverFails
  PROVE  /\ act' \in Activation /\ recovered' \in BOOLEAN /\ events' \in 0 .. MaxEvents
         /\ tainted' \subseteq {"stop", "retry", "restore", "window", "recovery"}
         /\ Unattended => act'.by = "none" /\ act'.pc = "done"
         /\ ~Unattended =>
               act'.by = act.by /\ act'.to = act.to /\ act'.pc \in {"done", "failed"}
         /\ \A t \in tainted : t = "recovery" \/ t \in tainted'
         /\ \A t \in tainted' : t = "recovery" \/ t \in tainted
         /\ tainted' = {} => RecoverDone(wrote) /\ (tainted = {} \/ ~Txn)
<1>1. act \in Activation
  BY DEF TypeOK
<1>2. CASE RecoverDone(wrote)
  <2>1. /\ act' \in Activation
        /\ Unattended => act'.by = "none" /\ act'.pc = "done"
        /\ ~Unattended =>
              act'.by = act.by /\ act'.to = act.to /\ act'.pc \in {"done", "failed"}
    <3>1. CASE Unattended
      BY <1>2, <3>1, Idle DEF RecoverDone
    <3>2. CASE ~Unattended
      BY <1>1, <1>2, <3>2 DEF RecoverDone, Activation
    <3> QED
      BY <3>1, <3>2
  <2> QED
    BY <1>2, <2>1 DEF TypeOK, RecoverDone, Txn
<1>3. CASE RecoverFails
  <2>1. /\ act' \in Activation
        /\ Unattended => act'.by = "none" /\ act'.pc = "done"
        /\ ~Unattended =>
              act'.by = act.by /\ act'.to = act.to /\ act'.pc \in {"done", "failed"}
    <3>1. CASE Unattended
      BY <1>3, <3>1, Idle DEF RecoverFails
    <3>2. CASE ~Unattended
      BY <1>1, <1>3, <3>2 DEF RecoverFails, Activation
    <3> QED
      BY <3>1, <3>2
  <2>2. events' \in 0 .. MaxEvents /\ recovered' \in BOOLEAN
    <3>1. events \in 0 .. MaxEvents /\ events < MaxEvents /\ events' = events + 1
      BY <1>3 DEF TypeOK, RecoverFails, Event
    <3>2. events' \in 0 .. MaxEvents
      BY <3>1
    <3>3. recovered' = FALSE
      BY <1>3 DEF RecoverFails
    <3>4. recovered' \in BOOLEAN
      BY <3>3, Zenon
    <3> QED
      BY <3>2, <3>4
  <2>3. /\ tainted' = tainted \cup {"recovery"}
        /\ tainted \subseteq {"stop", "retry", "restore", "window", "recovery"}
    BY <1>3 DEF TypeOK, RecoverFails
  <2>4. tainted' # {}
    BY <2>3
  <2> QED
    BY <2>1, <2>2, <2>3, <2>4
<1> QED
  BY <1>2, <1>3

\* A recovery that ends preserves the invariant if it wrote beside no transaction and,
\* when it succeeds, leaves the active system's pair.
LEMMA RecoveryEnds ==
  ASSUME IInv, NEW wrote \in BOOLEAN, RecoverDone(wrote) \/ RecoverFails,
         act.pc \in {"recover", "lock"}, act.by # "none",
         UNCHANGED <<gens, profile, entry, booted, current, marker, unit, detached, script,
                     req, power>>,
         live' \in FlakePair,
         live' # live /\ Steady => ~Txn /\ ~Failed,
         Sound /\ ~Txn /\ ~marker /\ RecoverDone(wrote) => live' = Pair(current, current)
  PROVE  IInv'
<1>1. /\ act' \in Activation /\ recovered' \in BOOLEAN /\ events' \in 0 .. MaxEvents
      /\ tainted' \subseteq {"stop", "retry", "restore", "window", "recovery"}
      /\ Unattended => act'.by = "none" /\ act'.pc = "done"
      /\ ~Unattended =>
            act'.by = act.by /\ act'.to = act.to /\ act'.pc \in {"done", "failed"}
      /\ \A t \in tainted : t = "recovery" \/ t \in tainted'
      /\ \A t \in tainted' : t = "recovery" \/ t \in tainted
      /\ tainted' = {} => RecoverDone(wrote) /\ (tainted = {} \/ ~Txn)
  BY RecoverEnd DEF IInv
<1>2. /\ "stop" \in tainted' <=> "stop" \in tainted
      /\ Steady' <=> Steady
      /\ Clean' => Sound /\ RecoverDone(wrote) /\ (Clean \/ ~Txn)
  BY <1>1 DEF Steady, Clean, Sound
<1>3. TypeOK'
  BY <1>1 DEF IInv, TypeOK
<1>4. UnitInv'
  BY <1>2 DEF IInv, Inv, UnitInv
<1>5. ActInv'
  BY <1>1 DEF IInv, Inv, ActInv, Unattended
<1>6. ASSUME live' = live PROVE DetachedInv' /\ FlagInv' /\ StepInv' /\ FailInv'
  <2>1. DetachedInv'
    BY <1>1, <1>2, <1>6 DEF IInv, Inv, DetachedInv, Txn, Failed, Unattended
  <2>2. FlagInv' /\ FailInv'
    BY <1>1, <1>2, <1>6 DEF IInv, Inv, FlagInv, FailInv, Txn, Failed, Before, After, Unattended
  <2>3. StepInv'
    BY <1>1, <1>2, <1>6 DEF IInv, Inv, StepInv, Txn, Before, Unattended
  <2> QED
    BY <2>1, <2>2, <2>3
<1>7. ASSUME live' # live PROVE DetachedInv' /\ FlagInv' /\ StepInv' /\ FailInv'
  <2>1. Steady => ~Txn /\ ~Failed
    BY <1>7
  <2> QED
    BY <1>1, <1>2, <2>1 DEF IInv, Inv, DetachedInv, FlagInv, StepInv, FailInv, Txn, Failed
<1>8. PairInv'
  <2>1. act'.pc # "lock"
    BY <1>1
  <2> QED
    BY <1>2, <2>1 DEF IInv, Inv, PairInv, Txn
<1> QED
  BY <1>3, <1>4, <1>5, <1>6, <1>7, <1>8 DEF IInv, Inv

\* The recovery leaves the pair alone under a marker, and otherwise starts to make
\* it the active system's, or fails.
LEMMA Recover_Inv ==
  ASSUME IInv, Recover
  PROVE  IInv'
<1>1. /\ act \in Activation /\ live \in FlakePair /\ act.pc = "recover" /\ act.by # "none"
      /\ UNCHANGED <<gens, profile, entry, booted, current, marker, unit, detached, script,
                     req, power>>
  BY DEF IInv, TypeOK, Inv, ActInv, Recover
<1>2. CASE marker /\ RecoverDone(FALSE) /\ UNCHANGED live
  BY <1>1, <1>2, RecoveryEnds
<1>3. CASE ~marker /\ RecoverFails /\ UNCHANGED live
  <2>1. ~RecoverDone(FALSE)
    BY <1>3 DEF RecoverDone, RecoverFails
  <2> QED
    BY <1>1, <1>3, <2>1, RecoveryEnds
<1>4. CASE ~marker /\ live = Pair(current, current) /\ RecoverDone(TRUE) /\ UNCHANGED live
  BY <1>1, <1>4, RecoveryEnds
<1>5. CASE /\ ~marker /\ live # Pair(current, current)
           /\ act' = [act EXCEPT !.pc = "lock"] /\ live' = [live EXCEPT !.nix = current]
           /\ UNCHANGED <<recovered, events, tainted>>
  <2>1. /\ act' \in Activation /\ act'.by = act.by /\ act'.to = act.to /\ act'.pc = "lock"
        /\ live' \in FlakePair /\ live'.nix = current
    BY <1>1, <1>5 DEF IInv, TypeOK, Activation, FlakePair
  <2>2. TypeOK'
    BY <1>1, <1>5, <2>1 DEF IInv, TypeOK
  <2>3. ASSUME Steady PROVE ~Txn /\ ~Failed /\ detached = {}
    <3>1. detached = {}
      BY <1>5, <2>3 DEF IInv, Inv, DetachedInv
    <3>2. act.by # "detached"
      BY <3>1 DEF IInv, Inv, ActInv
    <3>3. ~Failed
      BY <1>1, <2>3, <3>2 DEF IInv, Inv, FailInv
    <3>4. ASSUME Txn PROVE FALSE
      <4>1. act.by = "unit" /\ unit.pc \in {"act", "recover", "rbact"}
        BY <1>1, <2>3, <3>4 DEF IInv, Inv, StepInv, ActInv, Txn
      <4>2. unit.pc = "recover" /\ unit.set = {"live", "profile"}
        BY <1>5, <2>3, <3>4, <4>1 DEF IInv, Inv, FlagInv
      <4>3. After
        BY <2>3, <3>4, <4>2 DEF IInv, Inv, FlagInv
      <4> QED
        BY <1>5, <4>3 DEF After
    <3> QED
      BY <3>1, <3>3, <3>4
  <2>4. UnitInv' /\ ActInv'
    BY <1>1, <1>5, <2>1 DEF IInv, Inv, UnitInv, ActInv
  <2>5. DetachedInv' /\ FlagInv' /\ StepInv' /\ FailInv'
    BY <1>1, <1>5, <2>3 DEF DetachedInv, FlagInv, StepInv, FailInv, Steady, Txn, Failed
  <2>6. PairInv'
    BY <1>1, <1>5, <2>1 DEF IInv, Inv, PairInv, Clean, Sound, Txn
  <2> QED
    BY <2>2, <2>4, <2>5, <2>6 DEF IInv, Inv
<1> QED
  BY <1>2, <1>3, <1>4, <1>5 DEF Recover

\* The second rename of the recovery completes the active system's pair, or fails.
LEMMA RecoverLock_Inv ==
  ASSUME IInv, RecoverLock
  PROVE  IInv'
<1>1. /\ act \in Activation /\ live \in FlakePair /\ act.pc = "lock" /\ act.by # "none"
      /\ UNCHANGED <<gens, profile, entry, booted, current, marker, unit, detached, script,
                     req, power>>
  BY DEF IInv, TypeOK, Inv, ActInv, RecoverLock
<1>2. CASE live' = [live EXCEPT !.lock = current] /\ RecoverDone(TRUE)
  <2>1. live' \in FlakePair /\ (live.nix = current => live' = Pair(current, current))
    BY <1>1, <1>2 DEF IInv, TypeOK, FlakePair
  <2>2. Steady => ~Txn /\ ~Failed
    BY <1>1 DEF IInv, Inv, ActInv, DetachedInv, StepInv, FailInv
  <2>3. Sound /\ ~Txn /\ ~marker => live.nix = current
    BY <1>1 DEF IInv, Inv, PairInv
  <2> QED
    BY <1>1, <1>2, <2>1, <2>2, <2>3, RecoveryEnds
<1>3. CASE RecoverFails /\ UNCHANGED live
  <2>1. ~RecoverDone(FALSE)
    BY <1>3 DEF RecoverDone, RecoverFails
  <2> QED
    BY <1>1, <1>3, <2>1, RecoveryEnds
<1> QED
  BY <1>2, <1>3 DEF RecoverLock

-----------------------------------------------------------------------------
(* The transaction script                                                  *)

\* The script goes on: it is the same transaction, at another line.
Goes ==
    /\ unit' \in Unit /\ unit'.st = "running" /\ unit'.kind = "txn"
    /\ unit'.old = unit.old /\ unit'.gen = unit.gen /\ unit'.backup = unit.backup
    /\ unit'.stage = unit.stage
    /\ unit'.detach = unit.detach /\ unit'.stopping = unit.stopping

\* A transaction starts from an agreeing profile and active system, and backs up the
\* pair of that system: one that cannot be sure of it is tainted.
LEMMA TxnBegin_Inv ==
  ASSUME IInv, TxnBegin
  PROVE  IInv'
<1>1. TypeOK'
  BY DEF IInv, TypeOK, TxnBegin, At, Ended, Unit, FlakePair, Activation
<1>2. UnitInv'
  BY DEF IInv, TypeOK, Inv, UnitInv, TxnBegin, At, Ended, Unit
<1>3. ActInv'
  BY DEF IInv, TypeOK, Inv, ActInv, TxnBegin, At, Ended, Unit
<1>4. Steady' => Steady /\ ~marker /\ act.by = "none"
  BY DEF TxnBegin, Steady
<1>5. CASE profile \in DOMAIN gens /\ gens[profile] = current
  <2>1. /\ unit' \in Unit /\ unit'.st = "running" /\ unit'.kind = "txn" /\ unit'.pc = "build"
        /\ unit'.old = current /\ unit'.gen = profile /\ unit'.backup = live /\ unit'.set = {}
        /\ UNCHANGED <<gens, profile, current, live, marker, detached, act, power>>
    BY <1>1, <1>5 DEF IInv, TypeOK, Inv, UnitInv, TxnBegin, At, Unit
  <2>2. DetachedInv'
    BY <1>4, <2>1 DEF IInv, Inv, DetachedInv, Steady
  <2>3. FlagInv'
    BY <1>4, <2>1 DEF IInv, TypeOK, FlagInv, Before
  <2>6. StepInv'
    BY <1>4, <2>1 DEF StepInv
  <2>4. FailInv'
    BY <2>1 DEF FailInv, Failed
  <2>5. PairInv'
    <3>1. Clean' => Clean /\ ~marker /\ act.by = "none"
      BY <2>1 DEF TxnBegin, Clean
    <3>2. ~Txn /\ act.by = "none" => act.pc = "done"
      BY DEF IInv, Inv, ActInv
    <3> QED
      BY <2>1, <3>1, <3>2 DEF IInv, Inv, PairInv, Txn, TxnBegin, At
  <2> QED
    BY <1>1, <1>2, <1>3, <2>2, <2>3, <2>4, <2>5, <2>6 DEF IInv, Inv
<1>6. CASE ~(profile \in DOMAIN gens /\ gens[profile] = current)
  <2>1. /\ unit'.st = "failed" /\ unit'.pc = "init"
        /\ UNCHANGED <<gens, profile, current, live, marker, detached, act, power>>
    BY <1>6 DEF IInv, TypeOK, TxnBegin, At, Ended, Unit
  <2>2. ~Txn' /\ ~Failed' /\ ~Txn
    BY <2>1 DEF Txn, Failed, TxnBegin, At
  <2>3. DetachedInv' /\ FlagInv' /\ StepInv' /\ FailInv'
    BY <1>4, <2>1, <2>2 DEF IInv, Inv, DetachedInv, FlagInv, StepInv, FailInv
  <2>4. PairInv'
    <3>1. (Clean' => Clean) /\ (Sound' => Sound)
      BY <2>1 DEF TxnBegin, Clean, Sound
    <3> QED
      BY <2>1, <2>2, <3>1 DEF IInv, Inv, PairInv
  <2> QED
    BY <1>1, <1>2, <1>3, <2>3, <2>4 DEF IInv, Inv
<1> QED
  BY <1>5, <1>6

\* The build touches nothing but the staged system.
LEMMA Build_Inv ==
  ASSUME IInv, Build
  PROVE  IInv'
<1>1. /\ Txn /\ unit.pc = "build" /\ unit \in Unit
      /\ UNCHANGED <<gens, profile, current, live, marker, detached, act, power, tainted>>
  BY DEF IInv, TypeOK, Build, At, Txn
<1>2. PICK c \in Closure : unit' = [unit EXCEPT !.pc = "mark", !.stage = c]
  BY DEF Build
<1>3. /\ unit' \in Unit /\ unit'.st = "running" /\ unit'.kind = "txn" /\ unit'.pc = "mark"
      /\ unit'.old = unit.old /\ unit'.gen = unit.gen /\ unit'.backup = unit.backup
      /\ unit'.set = unit.set /\ unit'.detach = unit.detach /\ unit'.stopping = unit.stopping
  BY <1>1, <1>2 DEF Unit, Txn
<1>4. TypeOK'
  BY <1>1, <1>3 DEF IInv, TypeOK, Build
<1>5. UnitInv' /\ ActInv'
  BY <1>1, <1>3 DEF IInv, Inv, UnitInv, ActInv, Txn
<1>6. DetachedInv' /\ FailInv'
  BY <1>1, <1>3 DEF IInv, Inv, DetachedInv, FailInv, Steady, Txn, Failed
<1>7. FlagInv'
  BY <1>1, <1>3 DEF IInv, Inv, FlagInv, Steady, Txn, Before
<1>8. StepInv'
  BY <1>1, <1>3 DEF IInv, Inv, StepInv, ActInv, Steady, Txn
<1>9. PairInv'
  BY <1>1, <1>3 DEF IInv, Inv, PairInv, Clean, Sound, Txn
<1> QED
  BY <1>4, <1>5, <1>6, <1>7, <1>8, <1>9 DEF IInv, Inv

\* The marker is set before the first write to the live pair.
LEMMA Mark_Inv ==
  ASSUME IInv, Mark
  PROVE  IInv'
<1>1. /\ Txn /\ unit.pc = "mark" /\ unit \in Unit /\ marker' = TRUE
      /\ UNCHANGED <<gens, profile, current, live, detached, act, power, tainted>>
  BY DEF IInv, TypeOK, Mark, At, Txn
<1>2. Goes /\ unit'.pc = "marked" /\ unit'.set = unit.set
  BY <1>1 DEF Mark, Goes, Unit, Txn
<1>3. TypeOK'
  BY <1>1, <1>2 DEF IInv, TypeOK, Mark, Goes
<1>4. UnitInv' /\ ActInv'
  BY <1>1, <1>2 DEF IInv, Inv, UnitInv, ActInv, Goes, Txn
<1>5. DetachedInv' /\ FailInv'
  BY <1>1, <1>2 DEF IInv, Inv, DetachedInv, FailInv, Steady, Txn, Failed, Goes
<1>6. FlagInv'
  BY <1>1, <1>2 DEF IInv, Inv, FlagInv, Steady, Txn, Before, After, Goes
<1>7. StepInv'
  BY <1>1, <1>2 DEF IInv, Inv, StepInv, ActInv, Steady, Txn, Goes
<1>8. PairInv'
  BY <1>1, <1>2 DEF IInv, Inv, PairInv, Clean, Sound, Txn, Goes
<1> QED
  BY <1>3, <1>4, <1>5, <1>6, <1>7, <1>8 DEF IInv, Inv

\* A flag is set after what it stands for is there, and before what it must cover.
LEMMA SetFlag_Inv ==
  ASSUME IInv, SetFlag
  PROVE  IInv'
<1>1. /\ Txn /\ unit.pc \in FlagPc /\ unit \in Unit
      /\ UNCHANGED <<gens, profile, current, live, marker, detached, act, power, tainted>>
  BY DEF IInv, TypeOK, SetFlag, Txn
<1>2. /\ Goes
      /\ unit.pc = "marked" => unit'.pc = "flagged" /\ unit'.set = unit.set \cup {"marker"}
      /\ unit.pc = "flagged" => unit'.pc = "nix" /\ unit'.set = unit.set \cup {"live"}
      /\ unit.pc = "installed" => unit'.pc = "set" /\ unit'.set = unit.set \cup {"profile"}
      /\ unit.pc = "unmarked" => unit'.pc = "recover" /\ unit'.set = unit.set \ {"marker"}
  <2>1. CASE unit.pc = "marked"
    BY <1>1, <2>1 DEF SetFlag, Goes, Unit, Txn
  <2>2. CASE unit.pc = "flagged"
    BY <1>1, <2>2 DEF SetFlag, Goes, Unit, Txn
  <2>3. CASE unit.pc = "installed"
    BY <1>1, <2>3 DEF SetFlag, Goes, Unit, Txn
  <2>4. CASE unit.pc = "unmarked"
    BY <1>1, <2>4 DEF SetFlag, Goes, Unit, Txn
  <2> QED
    BY <1>1, <2>1, <2>2, <2>3, <2>4
<1>3. unit'.pc \in {"flagged", "nix", "set", "recover"}
  BY <1>1, <1>2
<1>4. TypeOK'
  BY <1>1, <1>2 DEF IInv, TypeOK, SetFlag, Goes
<1>5. UnitInv' /\ ActInv'
  BY <1>1, <1>2, <1>3 DEF IInv, Inv, UnitInv, ActInv, Goes, Txn
<1>6. DetachedInv' /\ FailInv'
  BY <1>1, <1>2 DEF IInv, Inv, DetachedInv, FailInv, Steady, Txn, Failed, Goes
<1>7. FlagInv'
  <2>0. SUFFICES ASSUME Steady PROVE FlagInv'
    BY <1>1 DEF FlagInv, Steady
  <2>1. CASE unit.pc = "marked"
    <3>1. unit'.pc = "flagged" /\ unit'.set = {"marker"} /\ Before
      BY <1>1, <1>2, <2>0, <2>1 DEF IInv, Inv, FlagInv
    <3>2. "profile" \notin unit'.set /\ unit'.set # {"live", "profile"}
      BY <3>1
    <3>3. Before' /\ marker'
      BY <1>1, <1>2, <2>0, <2>1, <3>1 DEF IInv, Inv, FlagInv, StepInv, Before, Goes
    <3> QED
      BY <1>1, <3>1, <3>2, <3>3 DEF FlagInv, Before
  <2>2. CASE unit.pc = "flagged"
    <3>1. unit'.pc = "nix" /\ unit'.set = {"marker", "live"} /\ Before /\ marker
      BY <1>1, <1>2, <2>0, <2>2 DEF IInv, Inv, FlagInv
    <3>2. "live" \in unit'.set /\ unit'.set # {"live", "profile"}
      BY <3>1
    <3>3. Before'
      BY <1>1, <1>2, <3>1 DEF Before, Goes
    <3> QED
      BY <1>1, <3>1, <3>2, <3>3 DEF FlagInv, Before
  <2>3. CASE unit.pc = "installed"
    <3>1. unit'.pc = "set" /\ unit'.set = {"marker", "live", "profile"} /\ marker
      BY <1>1, <1>2, <2>0, <2>3 DEF IInv, Inv, FlagInv
    <3>2. "live" \in unit'.set /\ "profile" \in unit'.set /\ unit'.set # {"live", "profile"}
      BY <3>1
    <3> QED
      BY <1>1, <3>1, <3>2 DEF FlagInv
  <2>4. CASE unit.pc = "unmarked"
    <3>1. unit'.pc = "recover" /\ unit'.set = {"live", "profile"}
      BY <1>1, <1>2, <2>0, <2>4 DEF IInv, Inv, FlagInv
    <3>2. "live" \in unit'.set /\ "profile" \in unit'.set /\ "marker" \notin unit'.set
      BY <3>1
    <3>3. After'
      BY <1>1, <1>2, <2>0, <2>4 DEF IInv, Inv, StepInv, After, Goes
    <3> QED
      BY <1>1, <3>1, <3>2, <3>3 DEF FlagInv
  <2> QED
    BY <1>1, <2>1, <2>2, <2>3, <2>4
<1>8. StepInv'
  BY <1>1, <1>2 DEF IInv, Inv, StepInv, ActInv, Steady, Txn, Goes
<1>9. PairInv'
  BY <1>1, <1>2 DEF IInv, Inv, PairInv, Clean, Sound, Txn, Goes
<1> QED
  BY <1>4, <1>5, <1>6, <1>7, <1>8, <1>9 DEF IInv, Inv

\* flake.nix goes in first, under the marker.
LEMMA InstallNix_Inv ==
  ASSUME IInv, InstallNix
  PROVE  IInv'
<1>1. /\ Txn /\ unit.pc = "nix" /\ unit \in Unit /\ live \in FlakePair
      /\ live' = [live EXCEPT !.nix = unit.stage]
      /\ UNCHANGED <<gens, profile, current, marker, detached, act, power, tainted>>
  BY DEF IInv, TypeOK, InstallNix, At, Txn
<1>2. Goes /\ unit'.pc = "lock" /\ unit'.set = unit.set
  BY <1>1 DEF InstallNix, Goes, Unit, Txn
<1>3. live' \in FlakePair /\ live'.nix = unit.stage
  BY <1>1 DEF Unit, FlakePair
<1>4. TypeOK'
  BY <1>1, <1>2, <1>3 DEF IInv, TypeOK, InstallNix, Goes
<1>5. UnitInv' /\ ActInv'
  BY <1>1, <1>2 DEF IInv, Inv, UnitInv, ActInv, Goes, Txn
<1>6. DetachedInv' /\ FailInv'
  BY <1>1, <1>2 DEF IInv, Inv, DetachedInv, FailInv, Steady, Txn, Failed, Goes
<1>7. FlagInv'
  BY <1>1, <1>2 DEF IInv, Inv, FlagInv, Steady, Txn, Goes
<1>8. StepInv'
  BY <1>1, <1>2, <1>3 DEF IInv, Inv, StepInv, ActInv, Steady, Txn, Goes
<1>9. PairInv'
  BY <1>1, <1>2 DEF IInv, Inv, PairInv, Clean, Sound, Txn, Goes
<1> QED
  BY <1>4, <1>5, <1>6, <1>7, <1>8, <1>9 DEF IInv, Inv

\* flake.lock completes the staged system's pair.
LEMMA InstallLock_Inv ==
  ASSUME IInv, InstallLock
  PROVE  IInv'
<1>1. /\ Txn /\ unit.pc = "lock" /\ unit \in Unit /\ live \in FlakePair
      /\ live' = [live EXCEPT !.lock = unit.stage]
      /\ UNCHANGED <<gens, profile, current, marker, detached, act, power, tainted>>
  BY DEF IInv, TypeOK, InstallLock, At, Txn
<1>2. Goes /\ unit'.pc = "installed" /\ unit'.set = unit.set
  BY <1>1 DEF InstallLock, Goes, Unit, Txn
<1>3. /\ live' \in FlakePair
      /\ live.nix = unit.stage => live' = Pair(unit.stage, unit.stage)
  BY <1>1 DEF Unit, FlakePair
<1>4. TypeOK'
  BY <1>1, <1>2, <1>3 DEF IInv, TypeOK, InstallLock, Goes
<1>5. UnitInv' /\ ActInv'
  BY <1>1, <1>2 DEF IInv, Inv, UnitInv, ActInv, Goes, Txn
<1>6. DetachedInv' /\ FailInv'
  BY <1>1, <1>2 DEF IInv, Inv, DetachedInv, FailInv, Steady, Txn, Failed, Goes
<1>7. FlagInv'
  BY <1>1, <1>2 DEF IInv, Inv, FlagInv, Steady, Txn, Goes
<1>8. StepInv'
  BY <1>1, <1>2, <1>3 DEF IInv, Inv, StepInv, ActInv, Steady, Txn, Goes
<1>9. PairInv'
  BY <1>1, <1>2 DEF IInv, Inv, PairInv, Clean, Sound, Txn, Goes
<1> QED
  BY <1>4, <1>5, <1>6, <1>7, <1>8, <1>9 DEF IInv, Inv

\* The new generation's number is in range and its link is of the staged system.
LEMMA SetProfile_Inv ==
  ASSUME IInv, SetProfile
  PROVE  IInv'
<1>1. /\ Txn /\ unit.pc = "set" /\ unit \in Unit
      /\ UNCHANGED <<current, live, marker, detached, act, power, tainted>>
  BY DEF IInv, TypeOK, SetProfile, At, Txn
<1>2. Goes /\ unit'.pc = "act" /\ unit'.set = unit.set
  BY <1>1 DEF SetProfile, Goes, Unit, Txn
<1>3. TypeOK' /\ (profile' \in DOMAIN gens' => gens'[profile'] = unit.stage)
  <2>1. PICK G \in SUBSET Gen : gens \in [G -> Closure]
    BY DEF IInv, TypeOK
  <2>2. Last \in 0 .. MaxGen /\ (Last > 0 => Last \in G)
    <3>1. CASE gens = << >>
      BY <3>1 DEF Last
    <3>2. CASE gens # << >>
      <4>1. G # {}
        BY <2>1, <3>2
      <4>2. Max(G) \in G
        BY <4>1, LargestMember DEF Gen
      <4> QED
        BY <2>1, <3>2, <4>2 DEF Last, Gen
    <3> QED
      BY <3>1, <3>2
  <2>3. CASE Last > 0 /\ gens[Last] = unit.stage
    BY <1>1, <1>2, <2>1, <2>2, <2>3 DEF IInv, TypeOK, SetProfile, Goes, Gen
  <2>4. CASE ~(Last > 0 /\ gens[Last] = unit.stage)
    <3>1. /\ profile' = Last + 1 /\ Last + 1 \in Gen
          /\ gens' \in [G \cup {Last + 1} -> Closure]
          /\ gens'[Last + 1] = unit.stage
      BY <1>1, <2>1, <2>2, <2>4 DEF SetProfile, Gen, Unit
    <3>2. G \cup {Last + 1} \in SUBSET Gen
      BY <3>1
    <3> QED
      BY <1>1, <1>2, <3>1, <3>2 DEF IInv, TypeOK, SetProfile, Goes
  <2> QED
    BY <2>3, <2>4
<1>4. UnitInv' /\ ActInv'
  BY <1>1, <1>2 DEF IInv, Inv, UnitInv, ActInv, Goes, Txn
<1>5. DetachedInv' /\ FailInv'
  BY <1>1, <1>2 DEF IInv, Inv, DetachedInv, FailInv, Steady, Txn, Failed, Goes
<1>6. FlagInv'
  BY <1>1, <1>2 DEF IInv, Inv, FlagInv, Steady, Txn, Goes
<1>7. StepInv'
  BY <1>1, <1>2, <1>3 DEF IInv, Inv, StepInv, ActInv, Steady, Txn, Goes
<1>8. PairInv'
  BY <1>1, <1>2 DEF IInv, Inv, PairInv, Clean, Sound, Txn, Goes
<1> QED
  BY <1>3, <1>4, <1>5, <1>6, <1>7, <1>8 DEF IInv, Inv

\* A transaction whose activation is over, and any that fails, begins to roll back.
LEMMA RollsBack ==
  ASSUME IInv, Txn, unit.pc \in TxnPc \ FlagPc, unit' = RollBack(unit, FALSE),
         UNCHANGED <<gens, profile, current, live, marker, detached, power, tainted>>,
         act'.by # "unit", act'.by = "none" => act'.pc = "done",
         act' = act \/ (act.by = "unit" /\ act'.by = "none")
  PROVE  unit' \in Unit /\ Inv'
<1>1. unit \in Unit
  BY DEF IInv, TypeOK
<1>2. /\ unit' \in Unit /\ unit'.st = "running" /\ unit'.kind = "txn" /\ unit'.pc = "rbmark"
      /\ unit'.old = unit.old /\ unit'.gen = unit.gen /\ unit'.backup = unit.backup
      /\ unit'.stage = unit.stage /\ unit'.set = unit.set
      /\ ~unit'.detach /\ unit'.stopping = unit.stopping
  BY <1>1 DEF RollBack, Unit, Txn
<1>3. UnitInv' /\ ActInv'
  BY <1>2 DEF IInv, Inv, UnitInv, ActInv, Txn
<1>4. DetachedInv' /\ FailInv'
  BY <1>2 DEF IInv, Inv, DetachedInv, FailInv, Steady, Failed
<1>5. FlagInv'
  BY <1>2 DEF IInv, Inv, FlagInv, Steady, Before, After, Txn
<1>6. StepInv'
  BY <1>2 DEF IInv, Inv, StepInv, Steady
<1>7. PairInv'
  BY <1>2 DEF IInv, Inv, PairInv, Clean, Sound, Txn
<1> QED
  BY <1>2, <1>3, <1>4, <1>5, <1>6, <1>7 DEF Inv

\* A failing command enters the rollback with the flags as they are.
LEMMA TxnFails_Inv ==
  ASSUME IInv, TxnFails
  PROVE  IInv'
<1>1. /\ Txn /\ unit.pc \in TxnPc \ FlagPc /\ unit' = RollBack(unit, FALSE)
      /\ act.by # "unit"
      /\ UNCHANGED <<gens, profile, current, live, marker, detached, act, power, tainted>>
  BY DEF IInv, Inv, ActInv, TxnFails, Txn
<1>2. act.by = "none" => act.pc = "done"
  BY DEF IInv, Inv, ActInv
<1>3. unit' \in Unit /\ Inv'
  BY <1>1, <1>2, RollsBack
<1> QED
  BY <1>1, <1>3 DEF IInv, TypeOK, TxnFails

\* The script activates the staged system.
LEMMA TxnActivate_Inv ==
  ASSUME IInv, TxnActivate
  PROVE  IInv'
<1>1. /\ Txn /\ unit.pc = "act" /\ unit \in Unit /\ act.by = "none"
      /\ act' = [by |-> "unit", to |-> unit.stage, pc |-> "entry"]
      /\ UNCHANGED <<gens, profile, current, live, marker, unit, detached, power, tainted>>
  BY DEF IInv, TypeOK, TxnActivate, Activate, At, Txn
<1>2. act' \in Activation /\ act'.by = "unit" /\ act'.to = unit.stage /\ act'.pc = "entry"
  BY <1>1 DEF Activation, Unit
<1>3. TypeOK'
  BY <1>1, <1>2 DEF IInv, TypeOK, TxnActivate
<1>4. UnitInv' /\ ActInv' /\ DetachedInv'
  BY <1>1, <1>2 DEF IInv, Inv, UnitInv, ActInv, DetachedInv, Steady, Txn, Failed
<1>5. FlagInv' /\ FailInv'
  BY <1>1 DEF IInv, Inv, FlagInv, FailInv, Steady, Txn, Failed, Before, After
<1>6. StepInv'
  BY <1>1, <1>2 DEF IInv, Inv, StepInv, Steady, Txn
<1>7. PairInv'
  BY <1>1 DEF IInv, Inv, PairInv, Clean, Sound, Txn
<1> QED
  BY <1>3, <1>4, <1>5, <1>6, <1>7 DEF IInv, Inv

\* The script goes on to the health check only when its system is the active one.
LEMMA TxnActed_Inv ==
  ASSUME IInv, TxnActed
  PROVE  IInv'
<1>1. /\ Txn /\ unit.pc \in {"act", "recover"} /\ unit \in Unit
      /\ act.by = "unit" /\ act.pc \in {"done", "failed"} /\ act' = NoAct
      /\ UNCHANGED <<gens, profile, current, live, marker, detached, power, tainted>>
  BY DEF IInv, TypeOK, TxnActed, Txn
<1>2. CASE act.pc = "failed"
  <2>1. unit' = RollBack(unit, FALSE)
    BY <1>2 DEF TxnActed
  <2>2. unit' \in Unit /\ Inv'
    BY <1>1, <2>1, Idle, RollsBack
  <2> QED
    BY <1>1, <2>2, Idle DEF IInv, TypeOK, TxnActed
<1>3. CASE act.pc = "done"
  <2>1. /\ Goes /\ unit'.set = unit.set
        /\ unit.pc = "act" => unit'.pc = "health"
        /\ unit.pc = "recover" => unit'.pc = "cmp"
    BY <1>1, <1>3 DEF TxnActed, Goes, Unit, Txn
  <2>2. TypeOK'
    BY <1>1, <2>1, Idle DEF IInv, TypeOK, TxnActed, Goes
  <2>3. UnitInv' /\ ActInv'
    BY <1>1, <2>1, Idle DEF IInv, Inv, UnitInv, ActInv, Goes, Txn
  <2>4. DetachedInv' /\ FailInv'
    BY <1>1, <2>1 DEF IInv, Inv, DetachedInv, FailInv, Steady, Txn, Failed, Goes
  <2>5. FlagInv'
    BY <1>1, <2>1 DEF IInv, Inv, FlagInv, Steady, Txn, Before, After, Goes
  <2>6. StepInv'
    BY <1>1, <1>3, <2>1, Idle DEF IInv, Inv, StepInv, ActInv, Steady, Txn, Goes
  <2>7. PairInv'
    BY <1>1, <2>1 DEF IInv, Inv, PairInv, Clean, Sound, Txn, Goes
  <2> QED
    BY <2>2, <2>3, <2>4, <2>5, <2>6, <2>7 DEF IInv, Inv
<1> QED
  BY <1>1, <1>2, <1>3

\* The health check writes nothing.
LEMMA Healthy_Inv ==
  ASSUME IInv, Healthy
  PROVE  IInv'
<1>1. /\ Txn /\ unit.pc = "health" /\ unit \in Unit
      /\ UNCHANGED <<gens, profile, current, live, marker, detached, act, power, tainted>>
  BY DEF IInv, TypeOK, Healthy, At, Txn
<1>2. Goes /\ unit'.pc = "unmark" /\ unit'.set = unit.set
  BY <1>1 DEF Healthy, Goes, Unit, Txn
<1>3. TypeOK'
  BY <1>1, <1>2 DEF IInv, TypeOK, Healthy, Goes
<1>4. UnitInv' /\ ActInv'
  BY <1>1, <1>2 DEF IInv, Inv, UnitInv, ActInv, Goes, Txn
<1>5. DetachedInv' /\ FailInv'
  BY <1>1, <1>2 DEF IInv, Inv, DetachedInv, FailInv, Steady, Txn, Failed, Goes
<1>6. FlagInv'
  BY <1>1, <1>2 DEF IInv, Inv, FlagInv, Steady, Txn, Before, After, Goes
<1>7. StepInv'
  BY <1>1, <1>2 DEF IInv, Inv, StepInv, ActInv, Steady, Txn, Goes
<1>8. PairInv'
  BY <1>1, <1>2 DEF IInv, Inv, PairInv, Clean, Sound, Txn, Goes
<1> QED
  BY <1>3, <1>4, <1>5, <1>6, <1>7, <1>8 DEF IInv, Inv

\* When the marker goes, pair, profile and active system are the staged system's.
LEMMA Unmark_Inv ==
  ASSUME IInv, Unmark
  PROVE  IInv'
<1>1. /\ Txn /\ unit.pc = "unmark" /\ unit \in Unit /\ marker' = FALSE
      /\ UNCHANGED <<gens, profile, current, live, detached, act, power, tainted>>
  BY DEF IInv, TypeOK, Unmark, At, Txn
<1>2. Goes /\ unit'.pc = "unmarked" /\ unit'.set = unit.set
  BY <1>1 DEF Unmark, Goes, Unit, Txn
<1>3. TypeOK'
  BY <1>1, <1>2 DEF IInv, TypeOK, Unmark, Goes
<1>4. UnitInv' /\ ActInv'
  BY <1>1, <1>2 DEF IInv, Inv, UnitInv, ActInv, Goes, Txn
<1>5. DetachedInv' /\ FailInv'
  BY <1>1, <1>2 DEF IInv, Inv, DetachedInv, FailInv, Steady, Txn, Failed, Goes
<1>6. FlagInv'
  <2>1. ASSUME Steady PROVE unit'.set = {"marker", "live", "profile"}
    BY <1>1, <1>2, <2>1 DEF IInv, Inv, FlagInv
  <2>2. Steady => /\ "live" \in unit'.set /\ "profile" \in unit'.set
                  /\ unit'.set # {"live", "profile"}
    BY <2>1
  <2>3. Steady' => Steady
    BY <1>1 DEF Steady
  <2> QED
    BY <1>2, <2>1, <2>2, <2>3 DEF FlagInv
<1>7. StepInv'
  BY <1>1, <1>2 DEF IInv, Inv, StepInv, ActInv, Steady, Txn, Goes
<1>8. PairInv'
  BY <1>1, <1>2 DEF IInv, Inv, PairInv, Clean, Sound, Txn, Goes
<1> QED
  BY <1>3, <1>4, <1>5, <1>6, <1>7, <1>8 DEF IInv, Inv

\* The recovery restarted after the marker finds the active system's pair in place.
LEMMA TxnRestartRecovery_Inv ==
  ASSUME IInv, TxnRestartRecovery
  PROVE  IInv'
<1>1. /\ Txn /\ unit.pc = "recover" /\ unit \in Unit /\ act.by = "none"
      /\ act' = [by |-> "unit", to |-> current, pc |-> "recover"]
      /\ UNCHANGED <<gens, profile, current, live, marker, unit, detached, power, tainted>>
  BY DEF IInv, TypeOK, TxnRestartRecovery, At, Txn
<1>2. act' \in Activation /\ act'.by = "unit" /\ act'.to = current /\ act'.pc = "recover"
  BY <1>1 DEF IInv, TypeOK, Activation
<1>3. TypeOK'
  BY <1>1, <1>2 DEF IInv, TypeOK, TxnRestartRecovery
<1>4. UnitInv' /\ ActInv' /\ DetachedInv'
  BY <1>1, <1>2 DEF IInv, Inv, UnitInv, ActInv, DetachedInv, Steady, Txn, Failed
<1>5. FlagInv' /\ FailInv'
  BY <1>1 DEF IInv, Inv, FlagInv, FailInv, Steady, Txn, Failed, Before, After
<1>6. StepInv'
  BY <1>1, <1>2 DEF IInv, Inv, StepInv, Steady, Txn
<1>7. PairInv'
  BY <1>1 DEF IInv, Inv, PairInv, Clean, Sound, Txn
<1> QED
  BY <1>3, <1>4, <1>5, <1>6, <1>7 DEF IInv, Inv

\* A transaction commits on the staged system's pair, which is then the active one's.
LEMMA Commit_Inv ==
  ASSUME IInv, Commit
  PROVE  IInv'
<1>1. /\ Txn /\ unit.pc = "cmp" /\ unit \in Unit
      /\ UNCHANGED <<gens, profile, current, live, marker, detached, act, power, tainted>>
  BY DEF IInv, TypeOK, Commit, At, Txn
<1>2. act.by # "unit" /\ (act.by = "none" => act.pc = "done")
  BY <1>1 DEF IInv, Inv, ActInv, Txn
<1>3. CASE unit' = NoUnit
  <2>1. TypeOK'
    BY <1>1, <1>3, Idle DEF IInv, TypeOK, Commit
  <2>2. UnitInv' /\ ActInv'
    BY <1>1, <1>2, <1>3, Idle DEF IInv, Inv, UnitInv, ActInv
  <2>3. ~Txn' /\ ~Failed'
    BY <1>3, Idle DEF Txn, Failed
  <2>4. DetachedInv' /\ FlagInv' /\ StepInv' /\ FailInv'
    BY <1>1, <2>3 DEF IInv, Inv, DetachedInv, FlagInv, StepInv, FailInv, Steady
  <2>5. PairInv'
    <3>1. ASSUME Clean PROVE act.pc = "done" /\ live = Pair(current, current)
      <4>1. Steady
        BY <3>1 DEF Clean, Steady
      <4>2. After /\ act.by \in {"none", "unit"}
        BY <1>1, <4>1 DEF IInv, Inv, FlagInv, StepInv
      <4> QED
        BY <1>2, <4>2 DEF After
    <3>2. Sound => act.pc = "done"
      BY <1>1, <1>2 DEF IInv, Inv, StepInv, Sound, Steady
    <3> QED
      BY <1>1, <2>3, <3>1, <3>2 DEF PairInv, Clean, Sound
  <2> QED
    BY <2>1, <2>2, <2>4, <2>5 DEF IInv, Inv
<1>4. CASE unit' = RollBack(unit, FALSE)
  <2>1. unit' \in Unit /\ Inv'
    BY <1>1, <1>2, <1>4, RollsBack
  <2> QED
    BY <1>1, <2>1 DEF IInv, TypeOK, Commit
<1> QED
  BY <1>3, <1>4 DEF Commit

-----------------------------------------------------------------------------
(* Its rollback, and the detached one                                      *)

\* A rollback that begins after the marker was removed makes it again first.
LEMMA RbMark_Inv ==
  ASSUME IInv, RbMark
  PROVE  IInv'
<1>1. /\ Txn /\ unit.pc = "rbmark" /\ unit \in Unit
      /\ UNCHANGED <<gens, profile, current, live, detached, act, power>>
  BY DEF IInv, TypeOK, RbMark, At, Txn
<1>2. CASE ~("profile" \in unit.set /\ "marker" \notin unit.set)
  <2>1. /\ Goes /\ unit'.pc = "rbnix" /\ unit'.set = unit.set
        /\ UNCHANGED <<marker, events, tainted>>
    BY <1>1, <1>2 DEF RbMark, At, Goes, Unit
  <2>2. TypeOK'
    BY <1>1, <2>1 DEF IInv, TypeOK, RbMark, Goes
  <2>3. UnitInv' /\ ActInv'
    BY <1>1, <2>1 DEF IInv, Inv, UnitInv, ActInv, Goes, Txn
  <2>4. DetachedInv' /\ FailInv'
    BY <1>1, <2>1 DEF IInv, Inv, DetachedInv, FailInv, Steady, Txn, Failed, Goes
  <2>5. FlagInv'
    BY <1>1, <1>2, <2>1 DEF IInv, Inv, FlagInv, Steady, Txn, Before, After, Goes
  <2>6. StepInv'
    BY <1>1, <2>1 DEF IInv, Inv, StepInv, ActInv, Steady, Txn, Goes
  <2>7. PairInv'
    BY <1>1, <2>1 DEF IInv, Inv, PairInv, Clean, Sound, Txn, Goes
  <2> QED
    BY <2>2, <2>3, <2>4, <2>5, <2>6, <2>7 DEF IInv, Inv
<1>3. CASE /\ "profile" \in unit.set /\ "marker" \notin unit.set
           /\ marker' = TRUE
           /\ unit' = [unit EXCEPT !.pc = "rbnix", !.set = @ \cup {"marker"}]
           /\ UNCHANGED <<events, tainted>>
  <2>1. Goes /\ unit'.pc = "rbnix" /\ unit'.set = unit.set \cup {"marker"}
    BY <1>1, <1>3 DEF Goes, Unit, Txn
  <2>2. TypeOK'
    BY <1>1, <1>3, <2>1 DEF IInv, TypeOK, RbMark, Goes
  <2>3. UnitInv' /\ ActInv'
    BY <1>1, <1>3, <2>1 DEF IInv, Inv, UnitInv, ActInv, Goes, Txn
  <2>4. DetachedInv' /\ FailInv'
    BY <1>1, <1>3, <2>1 DEF IInv, Inv, DetachedInv, FailInv, Steady, Txn, Failed, Goes
  <2>5. FlagInv'
    BY <1>1, <1>3, <2>1 DEF IInv, Inv, FlagInv, Steady, Txn, Before, After, Goes
  <2>6. StepInv'
    BY <1>1, <1>3, <2>1 DEF IInv, Inv, StepInv, ActInv, Steady, Txn, Goes
  <2>7. PairInv'
    BY <1>1, <1>3, <2>1 DEF IInv, Inv, PairInv, Clean, Sound, Txn, Goes
  <2> QED
    BY <2>2, <2>3, <2>4, <2>5, <2>6, <2>7 DEF IInv, Inv
<1>4. CASE /\ Event
           /\ unit' = [unit EXCEPT !.pc = "rbnix", !.ok = FALSE]
           /\ tainted' = tainted \cup {"restore"}
           /\ UNCHANGED marker
  <2>1. Goes /\ unit'.pc = "rbnix" /\ unit'.set = unit.set
    BY <1>1, <1>4 DEF Goes, Unit, Txn
  <2>2. TypeOK'
    BY <1>1, <1>4, <2>1 DEF IInv, TypeOK, RbMark, Goes, Event
  <2>3. UnitInv' /\ ActInv'
    BY <1>1, <1>4, <2>1 DEF IInv, Inv, UnitInv, ActInv, Goes, Txn
  <2>4. ~Steady' /\ ~Clean' /\ ~Sound'
    BY <1>4 DEF Steady, Clean, Sound
  <2> QED
    BY <2>2, <2>3, <2>4 DEF IInv, Inv, DetachedInv, FlagInv, StepInv, FailInv, PairInv
<1> QED
  BY <1>2, <1>3, <1>4 DEF RbMark

\* The rollback restores flake.nix, or notes that it could not.
LEMMA RbNix_Inv ==
  ASSUME IInv, RbNix
  PROVE  IInv'
<1>1. /\ Txn /\ unit.pc = "rbnix" /\ unit \in Unit /\ live \in FlakePair
      /\ UNCHANGED <<gens, profile, current, marker, detached, act, power>>
  BY DEF IInv, TypeOK, RbNix, At, Txn
<1>2. Goes /\ unit'.pc = "rblock" /\ unit'.set = unit.set
  BY <1>1 DEF RbNix, Goes, Unit, Txn
<1>3. /\ live' \in {live, [live EXCEPT !.nix = unit.backup.nix]}
      /\ "live" \notin unit.set => live' = live
      /\ Steady' => Steady /\ ("live" \in unit.set => live' = [live EXCEPT !.nix = unit.backup.nix])
      /\ Clean' => Clean
      /\ Sound' => Sound
  BY <1>1 DEF RbNix, Steady, Clean, Sound
<1>4. TypeOK'
  <2>1. live' \in FlakePair
    BY <1>1, <1>3 DEF FlakePair, Unit
  <2> QED
    BY <1>1, <1>2, <2>1 DEF IInv, TypeOK, RbNix, Goes, Event
<1>5. UnitInv' /\ ActInv'
  BY <1>1, <1>2 DEF IInv, Inv, UnitInv, ActInv, Goes, Txn, RbNix
<1>6. DetachedInv' /\ FailInv'
  BY <1>1, <1>2, <1>3 DEF IInv, Inv, DetachedInv, FailInv, Txn, Failed, Goes
<1>7. ASSUME Steady
      PROVE  /\ unit.set \in {{}, {"marker"}, {"marker", "live"},
                             {"marker", "live", "profile"}}
             /\ unit.set # {"live", "profile"}
  <2>1. unit.set \in {{}, {"marker"}, {"marker", "live"}, {"marker", "live", "profile"}}
    BY <1>1, <1>7 DEF IInv, Inv, FlagInv
  <2> QED
    BY <2>1
<1>8. FlagInv'
  BY <1>1, <1>2, <1>3, <1>7 DEF IInv, Inv, FlagInv, Before, After, Goes
<1>9. StepInv'
  <2>1. Steady' /\ "live" \in unit.set => live'.nix = unit.backup.nix
    BY <1>1, <1>3 DEF FlakePair
  <2> QED
    BY <1>1, <1>2, <1>3, <2>1 DEF IInv, Inv, StepInv, ActInv, Txn, Goes
<1>10. PairInv'
  BY <1>1, <1>2, <1>3 DEF IInv, Inv, PairInv, Txn, Goes
<1> QED
  BY <1>4, <1>5, <1>6, <1>8, <1>9, <1>10 DEF IInv, Inv

\* Restoring flake.lock completes the backed-up pair.
LEMMA RbLock_Inv ==
  ASSUME IInv, RbLock
  PROVE  IInv'
<1>1. /\ Txn /\ unit.pc = "rblock" /\ unit \in Unit /\ live \in FlakePair
      /\ UNCHANGED <<gens, profile, current, marker, detached, act, power, tainted>>
  BY DEF IInv, TypeOK, RbLock, At, Txn
<1>2. /\ Goes /\ unit'.set = unit.set
      /\ unit'.pc = IF "profile" \in unit.set THEN "rbgen" ELSE "rbend"
      /\ "live" \in unit.set /\ unit'.ok => live' = [live EXCEPT !.lock = unit.backup.lock]
      /\ live' # live => live' = [live EXCEPT !.lock = unit.backup.lock]
      /\ "live" \notin unit.set => live' = live
  <2> DEFINE next == IF "profile" \in unit.set THEN "rbgen" ELSE "rbend"
  <2>1. next \in {"rbgen", "rbend"}
    OBVIOUS
  <2> HIDE DEF next
  <2>2. CASE unit' = [unit EXCEPT !.pc = next]
    <3>1. Goes /\ unit'.set = unit.set /\ unit'.pc = next /\ unit'.ok = unit.ok
      BY <1>1, <2>1, <2>2 DEF Goes, Unit, Txn
    <3> QED
      BY <3>1, <1>1, <2>1, <2>2 DEF RbLock, next, Unit
  <2>3. CASE unit' = [unit EXCEPT !.pc = next, !.ok = FALSE] /\ live' = live
    <3>1. Goes /\ unit'.set = unit.set /\ unit'.pc = next /\ unit'.ok = FALSE
      BY <1>1, <2>1, <2>3 DEF Goes, Unit, Txn
    <3> QED
      BY <3>1, <2>3 DEF next
  <2> QED
    BY <2>2, <2>3 DEF RbLock, next
<1>3. TypeOK'
  BY <1>1, <1>2 DEF IInv, TypeOK, RbLock, Goes, FlakePair, Unit
<1>4. UnitInv' /\ ActInv'
  BY <1>1, <1>2 DEF IInv, Inv, UnitInv, ActInv, Goes, Txn
<1>5. DetachedInv' /\ FailInv'
  BY <1>1, <1>2 DEF IInv, Inv, DetachedInv, FailInv, Steady, Txn, Failed, Goes
<1>6. FlagInv'
  BY <1>1, <1>2 DEF IInv, Inv, FlagInv, Steady, Txn, Before, After, Goes
<1>7. StepInv'
  <2>1. ASSUME Steady, "live" \in unit.set PROVE live.nix = unit.backup.nix
    BY <1>1, <2>1 DEF IInv, Inv, StepInv
  <2>2. ASSUME Steady, unit'.ok PROVE live' = unit.backup
    <3>1. CASE "live" \notin unit.set
      BY <1>1, <1>2, <2>2, <3>1 DEF IInv, Inv, FlagInv, Before
    <3>2. CASE "live" \in unit.set
      BY <1>1, <1>2, <2>1, <2>2, <3>2 DEF FlakePair, Unit
    <3> QED
      BY <3>1, <3>2
  <2> QED
    BY <1>1, <1>2, <2>2 DEF IInv, Inv, StepInv, FlagInv, ActInv, Steady, Txn, Goes
<1>8. PairInv'
  BY <1>1, <1>2 DEF IInv, Inv, PairInv, Clean, Sound, Txn, Goes
<1> QED
  BY <1>3, <1>4, <1>5, <1>6, <1>7, <1>8 DEF IInv, Inv

\* The profile goes back to the old generation after the pair.
LEMMA RbGen_Inv ==
  ASSUME IInv, RbGen
  PROVE  IInv'
<1>1. /\ Txn /\ unit.pc = "rbgen" /\ unit \in Unit
      /\ UNCHANGED <<gens, current, live, marker, detached, act, power, tainted>>
  BY DEF IInv, TypeOK, RbGen, At, Txn
<1>2. /\ Goes /\ unit'.set = unit.set
      /\ unit'.pc = IF unit.detach THEN "rbend" ELSE "rbact"
      /\ unit'.ok => unit.ok /\ profile' = unit.gen
      /\ profile' \in {profile, unit.gen}
  <2> DEFINE to == IF unit.detach THEN "rbend" ELSE "rbact"
  <2>1. to \in {"rbend", "rbact"}
    OBVIOUS
  <2> HIDE DEF to
  <2>2. CASE unit' = [unit EXCEPT !.pc = to] /\ profile' = unit.gen
    <3>1. Goes /\ unit'.set = unit.set /\ unit'.pc = to /\ unit'.ok = unit.ok
      BY <1>1, <2>1, <2>2 DEF Goes, Unit, Txn
    <3> QED
      BY <3>1, <2>2 DEF to
  <2>3. CASE unit' = [unit EXCEPT !.pc = to, !.ok = FALSE] /\ profile' = profile
    <3>1. Goes /\ unit'.set = unit.set /\ unit'.pc = to /\ unit'.ok = FALSE
      BY <1>1, <2>1, <2>3 DEF Goes, Unit, Txn
    <3> QED
      BY <3>1, <2>3 DEF to
  <2> QED
    BY <2>2, <2>3 DEF RbGen, to
<1>3. TypeOK'
  BY <1>1, <1>2 DEF IInv, TypeOK, RbGen, Goes, Unit
<1>4. UnitInv' /\ ActInv'
  BY <1>1, <1>2 DEF IInv, Inv, UnitInv, ActInv, Goes, Txn
<1>5. DetachedInv' /\ FailInv'
  BY <1>1, <1>2 DEF IInv, Inv, DetachedInv, FailInv, Steady, Txn, Failed, Goes
<1>6. FlagInv'
  BY <1>1, <1>2 DEF IInv, Inv, FlagInv, Steady, Txn, Before, After, Goes
<1>7. StepInv'
  BY <1>1, <1>2 DEF IInv, Inv, StepInv, ActInv, Steady, Txn, Goes
<1>8. PairInv'
  BY <1>1, <1>2 DEF IInv, Inv, PairInv, Clean, Sound, Txn, Goes
<1> QED
  BY <1>3, <1>4, <1>5, <1>6, <1>7, <1>8 DEF IInv, Inv

\* The rollback activates the old system.
LEMMA RbActivate_Inv ==
  ASSUME IInv, RbActivate
  PROVE  IInv'
<1>1. /\ Txn /\ unit.pc = "rbact" /\ unit \in Unit /\ act \in Activation
      /\ UNCHANGED <<gens, profile, current, live, marker, detached, power, tainted>>
  BY DEF IInv, TypeOK, RbActivate, At, Txn
<1>2. CASE act.by = "none"
  <2>1. unit' = unit /\ act' = [by |-> "unit", to |-> unit.old, pc |-> "entry"]
    BY <1>2 DEF RbActivate, Activate
  <2>2. act' \in Activation /\ act'.by = "unit" /\ act'.to = unit.old /\ act'.pc = "entry"
    BY <1>1, <2>1 DEF Activation, Unit
  <2>3. TypeOK'
    BY <1>1, <2>1, <2>2 DEF IInv, TypeOK, RbActivate
  <2>4. UnitInv' /\ ActInv' /\ DetachedInv'
    BY <1>1, <2>1, <2>2 DEF IInv, Inv, UnitInv, ActInv, DetachedInv, Steady, Txn, Failed
  <2>5. FlagInv' /\ FailInv'
    BY <1>1, <2>1 DEF IInv, Inv, FlagInv, FailInv, Steady, Txn, Failed, Before, After
  <2>6. StepInv'
    BY <1>1, <2>1, <2>2 DEF IInv, Inv, StepInv, Steady, Txn
  <2>7. PairInv'
    BY <1>1, <2>1 DEF IInv, Inv, PairInv, Clean, Sound, Txn
  <2> QED
    BY <2>3, <2>4, <2>5, <2>6, <2>7 DEF IInv, Inv
<1>3. CASE act.by # "none"
  <2>1. unit' = [unit EXCEPT !.pc = "rbend", !.ok = FALSE] /\ act' = act /\ act.by # "unit"
    BY <1>3 DEF RbActivate, Activate
  <2>2. Goes /\ unit'.pc = "rbend" /\ unit'.set = unit.set /\ ~unit'.ok
    BY <1>1, <2>1 DEF Goes, Unit, Txn
  <2>3. TypeOK'
    BY <1>1, <2>1, <2>2 DEF IInv, TypeOK, RbActivate, Goes
  <2>4. UnitInv' /\ ActInv' /\ DetachedInv' /\ FailInv'
    BY <1>1, <2>1, <2>2 DEF IInv, Inv, UnitInv, ActInv, DetachedInv, FailInv, Steady, Txn,
                            Failed, Goes
  <2>5. FlagInv'
    BY <1>1, <2>2 DEF IInv, Inv, FlagInv, Steady, Txn, Before, After, Goes
  <2>6. StepInv'
    BY <1>1, <2>1, <2>2 DEF IInv, Inv, StepInv, Steady, Txn, Goes
  <2>7. PairInv'
    BY <1>1, <2>1, <2>2 DEF IInv, Inv, PairInv, Clean, Sound, Txn, Goes
  <2> QED
    BY <2>3, <2>4, <2>5, <2>6, <2>7 DEF IInv, Inv
<1> QED
  BY <1>2, <1>3

\* A rollback is complete only when the old system is active again.
LEMMA RbActed_Inv ==
  ASSUME IInv, RbActed
  PROVE  IInv'
<1>1. /\ Txn /\ unit.pc = "rbact" /\ unit \in Unit /\ act.by = "unit" /\ act' = NoAct
      /\ UNCHANGED <<gens, profile, current, live, marker, detached, power, tainted>>
  BY DEF IInv, TypeOK, RbActed, At, Txn
<1>2. /\ Goes /\ unit'.set = unit.set
      /\ \/ unit'.pc = "rbwait" /\ act.pc = "done" /\ unit.ok
         \/ unit'.pc = "rbend" /\ ~unit'.ok
  <2>1. CASE act.pc = "done" /\ unit.ok
    BY <1>1, <2>1 DEF RbActed, Goes, Unit, Txn
  <2>2. CASE ~(act.pc = "done" /\ unit.ok)
    BY <1>1, <2>2 DEF RbActed, Goes, Unit, Txn
  <2> QED
    BY <2>1, <2>2
<1>3. TypeOK'
  BY <1>1, <1>2, Idle DEF IInv, TypeOK, RbActed, Goes
<1>4. UnitInv' /\ ActInv' /\ DetachedInv' /\ FailInv'
  BY <1>1, <1>2, Idle DEF IInv, Inv, UnitInv, ActInv, DetachedInv, FailInv, Steady, Txn,
                          Failed, Goes
<1>5. FlagInv'
  BY <1>1, <1>2 DEF IInv, Inv, FlagInv, Steady, Txn, Before, After, Goes
<1>6. StepInv'
  BY <1>1, <1>2, Idle DEF IInv, Inv, StepInv, ActInv, Steady, Txn, Before, Goes
<1>7. PairInv'
  BY <1>1, <1>2 DEF IInv, Inv, PairInv, Clean, Sound, Txn, Goes
<1> QED
  BY <1>3, <1>4, <1>5, <1>6, <1>7 DEF IInv, Inv

\* The rollback is complete only when Tailscale is back as well.
LEMMA RbWait_Inv ==
  ASSUME IInv, RbWait
  PROVE  IInv'
<1>1. /\ Txn /\ unit.pc = "rbwait" /\ unit \in Unit
      /\ UNCHANGED <<gens, profile, current, live, marker, detached, act, power, tainted>>
  BY DEF IInv, TypeOK, RbWait, At, Txn
<1>2. Goes /\ unit'.pc = "rbend" /\ unit'.set = unit.set
  <2>1. PICK back \in BOOLEAN : unit' = [unit EXCEPT !.pc = "rbend", !.ok = back]
    BY DEF RbWait
  <2> QED
    BY <1>1, <2>1 DEF Goes, Unit, Txn
<1>3. TypeOK'
  BY <1>1, <1>2 DEF IInv, TypeOK, RbWait, Goes
<1>4. UnitInv' /\ ActInv' /\ DetachedInv' /\ FailInv'
  BY <1>1, <1>2 DEF IInv, Inv, UnitInv, ActInv, DetachedInv, FailInv, Steady, Txn, Failed, Goes
<1>5. FlagInv'
  BY <1>1, <1>2 DEF IInv, Inv, FlagInv, Steady, Txn, Before, After, Goes
<1>6. StepInv'
  BY <1>1, <1>2 DEF IInv, Inv, StepInv, ActInv, Steady, Txn, Before, Goes
<1>7. PairInv'
  BY <1>1, <1>2 DEF IInv, Inv, PairInv, Clean, Sound, Txn, Goes
<1> QED
  BY <1>3, <1>4, <1>5, <1>6, <1>7 DEF IInv, Inv

\* A stopped rollback hands its activation to a detached unit: the marker stays, and
\* what the script restored is what that unit relies on.
LEMMA RbDetach_Inv ==
  ASSUME IInv, RbDetach
  PROVE  IInv'
<1>1. /\ Txn /\ unit.pc = "rbend" /\ unit \in Unit /\ unit.ok /\ "profile" \in unit.set
      /\ unit.detach /\ unit.st = "running" /\ power = "on"
      /\ detached' = detached \cup {[old |-> unit.old, pc |-> "start"]}
      /\ UNCHANGED <<gens, profile, current, live, marker, act, power, tainted>>
  BY DEF IInv, TypeOK, RbDetach, At, Txn
<1>2. /\ unit' \in Unit /\ unit'.st = "failed" /\ unit'.kind = unit.kind /\ unit'.pc = unit.pc
      /\ unit'.old = unit.old /\ unit'.gen = unit.gen /\ unit'.backup = unit.backup
  BY <1>1, EndedUnit DEF RbDetach
<1>3. "stop" \in tainted
  BY <1>1 DEF IInv, Inv, UnitInv
<1>4. TypeOK'
  <2>1. detached' \subseteq [old : Closure, pc : {"start", "act", "wait"}]
    BY <1>1 DEF IInv, TypeOK, Unit
  <2> QED
    BY <1>1, <1>2, <2>1 DEF IInv, TypeOK, RbDetach
<1>5. ~Txn' /\ ~Clean' /\ ~Sound'
  BY <1>1, <1>2, <1>3 DEF Txn, Clean, Sound
<1>6. UnitInv' /\ ActInv'
  BY <1>1, <1>2, <1>3 DEF IInv, Inv, UnitInv, ActInv, Txn
<1>7. ASSUME Steady
      PROVE  /\ marker /\ detached = {} /\ act.by = "none"
             /\ live = unit.backup /\ profile = unit.gen
  <2>1. marker
    BY <1>1, <1>7 DEF IInv, Inv, FlagInv
  <2> QED
    BY <1>1, <1>7, <2>1 DEF IInv, Inv, DetachedInv, StepInv, ActInv, Txn
<1>8. DetachedInv'
  BY <1>1, <1>2, <1>5, <1>7 DEF DetachedInv, Steady, Failed
<1>9. FlagInv' /\ StepInv' /\ PairInv'
  BY <1>5 DEF FlagInv, StepInv, PairInv
<1>10. FailInv'
  BY <1>1, <1>7 DEF FailInv, Steady
<1> QED
  BY <1>4, <1>6, <1>8, <1>9, <1>10 DEF IInv, Inv

\* The rollback removes the marker only when everything is back.
LEMMA RbEnd_Inv ==
  ASSUME IInv, RbEnd
  PROVE  IInv'
<1>1. /\ Txn /\ unit.pc = "rbend" /\ unit \in Unit /\ unit.st = "running" /\ marker \in BOOLEAN
      /\ UNCHANGED <<gens, profile, current, live, detached, act, power, tainted>>
  BY DEF IInv, TypeOK, RbEnd, At, Txn
<1>2. /\ marker' \in BOOLEAN /\ (marker' => marker)
      /\ marker /\ ~marker' => unit.ok /\ ~(unit.detach /\ "profile" \in unit.set)
  <2> DEFINE left == unit.detach /\ "profile" \in unit.set
             unmarks == "marker" \in unit.set /\ unit.ok /\ ~left
  <2>1. marker' = (marker /\ ~unmarks) \/ marker' = marker
    BY DEF RbEnd
  <2>2. CASE unmarks
    <3>1. marker' = FALSE \/ marker' = marker
      BY <2>1, <2>2
    <3> HIDE DEF left
    <3>2. unit.ok /\ ~left
      BY <2>2
    <3>3. marker' \in BOOLEAN /\ (marker' => marker)
      <4>1. CASE marker' = FALSE
        BY <4>1, Zenon
      <4>2. CASE marker' = marker
        BY <1>1, <4>2, Zenon
      <4> QED
        BY <3>1, <4>1, <4>2
    <3> QED
      BY <3>2, <3>3, Zenon DEF left
  <2>3. CASE ~unmarks
    BY <1>1, <2>1, <2>3
  <2> QED
    BY <2>2, <2>3
<1>3. /\ unit' \in Unit /\ unit'.st = "failed" /\ unit'.kind = unit.kind /\ unit'.pc = unit.pc
      /\ unit'.old = unit.old /\ unit'.gen = unit.gen /\ unit'.backup = unit.backup
      /\ unit'.set = unit.set /\ ~unit'.stopping
  <2>1. Ended(FALSE) \in Unit
    BY <1>1, EndedUnit
  <2>2. PICK ok \in BOOLEAN : unit' = [Ended(FALSE) EXCEPT !.ok = ok]
    BY <1>1 DEF RbEnd, Unit
  <2> QED
    BY <1>1, <2>1, <2>2, EndedUnit DEF Unit
<1>4. TypeOK'
  BY <1>1, <1>2, <1>3 DEF IInv, TypeOK, RbEnd
<1>5. ~Txn'
  BY <1>3 DEF Txn
<1>6. UnitInv' /\ ActInv'
  BY <1>1, <1>3 DEF IInv, Inv, UnitInv, ActInv, Txn
<1>7. ASSUME Steady
      PROVE  /\ detached = {} /\ act.by = "none" /\ act.pc = "done"
             /\ marker' \/ Before
  <2>1. detached = {} /\ act.by = "none" /\ act.pc = "done"
    BY <1>1, <1>7 DEF IInv, Inv, DetachedInv, StepInv, ActInv, Txn
  <2>2. CASE "marker" \notin unit.set
    <3>1. "live" \notin unit.set
      BY <1>1, <1>7, <2>2 DEF IInv, Inv, FlagInv
    <3> QED
      BY <1>1, <1>7, <2>1, <3>1 DEF IInv, Inv, FlagInv
  <2>3. CASE "marker" \in unit.set
    <3>1. marker
      BY <1>1, <1>7, <2>3 DEF IInv, Inv, FlagInv
    <3>2. ASSUME ~marker' PROVE Before
      <4>1. unit.ok /\ ~(unit.detach /\ "profile" \in unit.set)
        BY <1>2, <3>1, <3>2
      <4>2. live = unit.backup /\ profile = unit.gen
        BY <1>1, <1>7, <4>1 DEF IInv, Inv, StepInv
      <4>3. current = unit.old
        BY <1>1, <1>7, <4>1 DEF IInv, Inv, FlagInv, StepInv
      <4> QED
        BY <4>2, <4>3 DEF Before
    <3> QED
      BY <2>1, <3>2
  <2> QED
    BY <2>1, <2>2, <2>3
<1>8. DetachedInv' /\ FlagInv' /\ StepInv'
  BY <1>1, <1>5, <1>7 DEF DetachedInv, FlagInv, StepInv, Steady
<1>9. FailInv'
  BY <1>1, <1>3, <1>7 DEF FailInv, Steady, Before
<1>10. PairInv'
  <2>0. Sound => act.pc = "done"
    BY <1>7 DEF Sound, Steady
  <2>1. ASSUME Clean, ~marker' PROVE live = Pair(current, current) /\ act.pc = "done"
    <3>1. Steady
      BY <2>1 DEF Clean, Steady
    <3>2. unit.backup = Pair(unit.old, unit.old)
      BY <1>1, <2>1 DEF IInv, Inv, PairInv
    <3> QED
      BY <1>7, <2>1, <3>1, <3>2 DEF Before
  <2> QED
    BY <1>1, <1>5, <2>0, <2>1 DEF PairInv, Clean, Sound
<1> QED
  BY <1>4, <1>6, <1>8, <1>9, <1>10 DEF IInv, Inv

\* The detached rollback activates the old system.
LEMMA DetachedActivate_Inv ==
  ASSUME IInv, NEW d \in detached, DetachedActivate(d)
  PROVE  IInv'
<1>1. /\ d.pc = "start" /\ act \in Activation
      /\ d \in [old : Closure, pc : {"start", "act", "wait"}]
      /\ UNCHANGED <<gens, profile, current, live, marker, unit, power, tainted>>
  BY DEF IInv, TypeOK, DetachedActivate
<1>2. ~Clean' /\ ~Sound'
  BY <1>1 DEF IInv, Inv, UnitInv, Clean, Sound
<1>3. ASSUME Steady PROVE marker /\ ~Txn /\ \A e \in detached : e = d
  BY <1>3 DEF IInv, Inv, DetachedInv
<1>4. CASE act.by = "none"
  <2> DEFINE e == [d EXCEPT !.pc = "act"]
  <2>1. /\ e \in [old : Closure, pc : {"start", "act", "wait"}]
        /\ e.old = d.old /\ e.pc = "act"
    BY <1>1
  <2>2. /\ detached' = (detached \ {d}) \cup {e}
        /\ act' = [by |-> "detached", to |-> d.old, pc |-> "entry"]
    BY <1>4 DEF DetachedActivate, Activate, Moved
  <2> HIDE DEF e
  <2>3. /\ act' \in Activation /\ act'.by = "detached" /\ act'.to = d.old
        /\ act'.pc = "entry" /\ e \in detached'
    BY <1>1, <2>2 DEF Activation
  <2>4. TypeOK'
    BY <1>1, <2>1, <2>2, <2>3 DEF IInv, TypeOK, DetachedActivate
  <2>5. UnitInv' /\ ActInv'
    BY <1>1, <1>4, <2>1, <2>3 DEF IInv, Inv, UnitInv, ActInv
  <2>6. Steady => detached' = {e}
    BY <1>3, <2>2
  <2>7. DetachedInv'
    BY <1>1, <1>3, <2>1, <2>3, <2>6 DEF IInv, Inv, DetachedInv, Steady, Txn, Failed
  <2>8. FlagInv' /\ StepInv' /\ FailInv' /\ PairInv'
    BY <1>1, <1>2, <1>3, <2>3 DEF FlagInv, StepInv, FailInv, PairInv, Steady, Txn
  <2> QED
    BY <2>4, <2>5, <2>7, <2>8 DEF IInv, Inv
<1>5. CASE act.by # "none"
  <2>1. detached' = detached \ {d} /\ act' = act
    BY <1>5 DEF DetachedActivate, Activate
  <2>2. TypeOK'
    BY <1>1, <2>1 DEF IInv, TypeOK, DetachedActivate
  <2>3. UnitInv' /\ ActInv' /\ DetachedInv'
    BY <1>1, <2>1 DEF IInv, Inv, UnitInv, ActInv, DetachedInv, Steady, Txn, Failed
  <2>4. FlagInv' /\ StepInv' /\ PairInv'
    BY <1>1, <1>2, <1>3 DEF FlagInv, StepInv, PairInv, Steady, Txn
  <2>5. FailInv'
    BY <1>1, <1>3, <2>1 DEF IInv, Inv, FailInv, Steady, Failed
  <2> QED
    BY <2>2, <2>3, <2>4, <2>5 DEF IInv, Inv
<1> QED
  BY <1>4, <1>5

\* The detached rollback waits with the old system active, or gives up and keeps the
\* marker.
LEMMA DetachedActed_Inv ==
  ASSUME IInv, NEW d \in detached, DetachedActed(d)
  PROVE  IInv'
<1>1. /\ d.pc = "act" /\ act.by = "detached" /\ act' = NoAct
      /\ d \in [old : Closure, pc : {"start", "act", "wait"}]
      /\ UNCHANGED <<gens, profile, current, live, marker, unit, power, tainted>>
  BY DEF IInv, TypeOK, DetachedActed
<1>2. ~Clean' /\ ~Sound'
  BY <1>1 DEF IInv, Inv, UnitInv, Clean, Sound
<1>3. ASSUME Steady PROVE marker /\ ~Txn /\ \A e \in detached : e = d
  BY <1>3 DEF IInv, Inv, DetachedInv
<1>4. CASE act.pc = "done"
  <2> DEFINE e == [d EXCEPT !.pc = "wait"]
  <2>1. /\ e \in [old : Closure, pc : {"start", "act", "wait"}]
        /\ e.old = d.old /\ e.pc = "wait"
    BY <1>1
  <2>2. detached' = (detached \ {d}) \cup {e}
    BY <1>4 DEF DetachedActed, Moved
  <2> HIDE DEF e
  <2>3. TypeOK'
    BY <1>1, <2>1, <2>2, Idle DEF IInv, TypeOK, DetachedActed
  <2>4. UnitInv' /\ ActInv'
    BY <1>1, <2>1, <2>2, Idle DEF IInv, Inv, UnitInv, ActInv
  <2>5. Steady => detached' = {e} /\ current = d.old
    <3>1. act.to = current /\ \E f \in detached : f.old = act.to
      BY <1>1, <1>4 DEF IInv, Inv, ActInv
    <3> QED
      BY <1>3, <2>2, <3>1
  <2>6. DetachedInv'
    BY <1>1, <1>3, <2>1, <2>5, Idle DEF IInv, Inv, DetachedInv, Steady, Txn, Failed
  <2>7. FlagInv' /\ StepInv' /\ FailInv' /\ PairInv'
    BY <1>1, <1>2, <1>3, Idle DEF FlagInv, StepInv, FailInv, PairInv, Steady, Txn
  <2> QED
    BY <2>3, <2>4, <2>6, <2>7 DEF IInv, Inv
<1>5. CASE act.pc # "done"
  <2>1. detached' = detached \ {d}
    BY <1>5 DEF DetachedActed
  <2>2. TypeOK'
    BY <1>1, <2>1, Idle DEF IInv, TypeOK, DetachedActed
  <2>3. UnitInv' /\ ActInv' /\ DetachedInv'
    BY <1>1, <2>1, Idle DEF IInv, Inv, UnitInv, ActInv, DetachedInv, Steady, Txn, Failed
  <2>4. FlagInv' /\ StepInv' /\ FailInv' /\ PairInv'
    BY <1>1, <1>2, <1>3, Idle DEF FlagInv, StepInv, FailInv, PairInv, Steady, Txn
  <2> QED
    BY <2>2, <2>3, <2>4 DEF IInv, Inv
<1> QED
  BY <1>4, <1>5

\* The detached rollback removes the marker once the failed script is undone.
LEMMA DetachedEnd_Inv ==
  ASSUME IInv, NEW d \in detached, DetachedEnd(d)
  PROVE  IInv'
<1>1. /\ d.pc = "wait" /\ marker \in BOOLEAN /\ marker' \in BOOLEAN
      /\ detached' = detached \ {d}
      /\ UNCHANGED <<gens, profile, current, live, unit, act, power, tainted>>
  BY DEF IInv, TypeOK, DetachedEnd
<1>2. TypeOK'
  BY <1>1 DEF IInv, TypeOK, DetachedEnd
<1>3. ~Clean' /\ ~Sound'
  BY <1>1 DEF IInv, Inv, UnitInv, Clean, Sound
<1>4. ASSUME Steady
      PROVE  /\ ~Txn /\ detached' = {}
             /\ Failed => Before
  BY <1>1, <1>4 DEF IInv, Inv, DetachedInv, Before
<1>5. UnitInv' /\ ActInv'
  BY <1>1 DEF IInv, Inv, UnitInv, ActInv
<1>6. DetachedInv' /\ FlagInv' /\ StepInv' /\ PairInv'
  BY <1>1, <1>3, <1>4 DEF DetachedInv, FlagInv, StepInv, PairInv, Steady, Txn
<1>7. FailInv'
  BY <1>1, <1>4 DEF IInv, Inv, FailInv, Steady, Failed, Before
<1> QED
  BY <1>2, <1>5, <1>6, <1>7 DEF IInv, Inv

-----------------------------------------------------------------------------
(* The switch script                                                       *)

\* A switch script repoints the profile at a generation that exists.
LEMMA Pick_Inv ==
  ASSUME IInv, Pick
  PROVE  IInv'
<1>1. /\ unit.st = "running" /\ unit.pc = "pick" /\ unit.kind # "txn" /\ unit \in Unit
      /\ UNCHANGED <<gens, current, live, marker, detached, act, power, tainted>>
  BY DEF IInv, TypeOK, Inv, UnitInv, Pick
<1>2. /\ unit' \in Unit /\ unit'.st \in {"running", "failed"} /\ unit'.kind = unit.kind
      /\ unit'.pc \in {"pick", "act"}
      /\ unit'.st = "running" => unit'.detach = unit.detach /\ unit'.stopping = unit.stopping
  <2>1. CASE unit' = [unit EXCEPT !.pc = "act"]
    BY <1>1, <2>1 DEF Unit
  <2>2. CASE unit' = Ended(FALSE)
    BY <1>1, <2>2, EndedUnit
  <2> QED
    BY <2>1, <2>2 DEF Pick
<1>3. profile' \in Gen
  <2>1. PICK G \in SUBSET Gen : gens \in [G -> Closure]
    BY DEF IInv, TypeOK
  <2>2. ASSUME \E g \in G : g < profile, profile' = Max({g \in G : g < profile})
        PROVE  profile' \in Gen
    <3> DEFINE older == {g \in G : g < profile}
    <3>1. older \in SUBSET (1 .. MaxGen) /\ older # {}
      BY <2>2 DEF Gen
    <3>2. Max(older) \in older
      <4> HIDE DEF older
      <4> QED
        BY <3>1, LargestMember
    <3> QED
      BY <2>2, <3>1, <3>2 DEF Gen
  <2>3. DOMAIN gens = G
    BY <2>1
  <2> QED
    BY <2>2, <2>3 DEF IInv, TypeOK, Pick
<1>4. TypeOK'
  BY <1>1, <1>2, <1>3 DEF IInv, TypeOK, Pick
<1>5. UnitInv' /\ ActInv'
  BY <1>1, <1>2 DEF IInv, Inv, UnitInv, ActInv
<1>6. ~Txn /\ ~Txn' /\ ~Failed'
  BY <1>1, <1>2 DEF Txn, Failed
<1> QED
  BY <1>1, <1>4, <1>5, <1>6, Aside DEF IInv, Inv

\* A switch script activates its generation.
LEMMA SwitchActivate_Inv ==
  ASSUME IInv, SwitchActivate
  PROVE  IInv'
<1>1. /\ unit.st = "running" /\ unit.pc = "act" /\ unit.kind # "txn" /\ unit \in Unit
      /\ act.by # "unit" /\ act \in Activation
      /\ UNCHANGED <<gens, profile, current, live, marker, detached, power, tainted>>
  BY DEF IInv, TypeOK, SwitchActivate
<1>2. CASE profile \in DOMAIN gens /\ act.by = "none"
  <2>1. UNCHANGED unit /\ act' = [by |-> "unit", to |-> gens[profile], pc |-> "entry"]
    BY <1>2 DEF SwitchActivate, Activate
  <2>2. act' \in Activation /\ act'.by = "unit" /\ act'.pc = "entry" /\ act.pc = "done"
    BY <1>2, <2>1 DEF IInv, TypeOK, Inv, ActInv, Activation
  <2>3. TypeOK'
    BY <1>1, <2>1, <2>2 DEF IInv, TypeOK, SwitchActivate
  <2>4. UnitInv' /\ ActInv'
    BY <1>1, <2>1, <2>2 DEF IInv, Inv, UnitInv, ActInv
  <2>5. ~Txn /\ ~Txn' /\ ~Failed'
    BY <1>1, <2>1 DEF Txn, Failed
  <2> QED
    BY <1>1, <2>2, <2>3, <2>4, <2>5, Aside DEF IInv, Inv
<1>3. CASE ~(profile \in DOMAIN gens /\ act.by = "none")
  <2>1. unit' = Ended(FALSE) /\ UNCHANGED act
    BY <1>3 DEF SwitchActivate
  <2>2. unit' \in Unit /\ unit'.st = "failed" /\ unit'.kind = unit.kind /\ unit'.pc = unit.pc
    BY <1>1, <2>1, EndedUnit
  <2>3. TypeOK'
    BY <1>1, <2>1, <2>2 DEF IInv, TypeOK, SwitchActivate
  <2>4. UnitInv' /\ ActInv'
    BY <1>1, <2>1, <2>2 DEF IInv, Inv, UnitInv, ActInv
  <2>5. ~Txn /\ ~Txn' /\ ~Failed'
    BY <1>1, <2>2 DEF Txn, Failed
  <2> QED
    BY <1>1, <2>1, <2>3, <2>4, <2>5, Aside DEF IInv, Inv
<1> QED
  BY <1>2, <1>3

\* A switch script ends, well or badly, with its activation.
LEMMA SwitchActed_Inv ==
  ASSUME IInv, SwitchActed
  PROVE  IInv'
<1>1. /\ unit.st = "running" /\ unit.kind # "txn" /\ unit \in Unit
      /\ act.pc \in {"done", "failed"} /\ act' = NoAct
      /\ UNCHANGED <<gens, profile, current, live, marker, detached, power, tainted>>
  BY DEF IInv, TypeOK, SwitchActed
<1>2. /\ unit' \in Unit
      /\ \/ unit'.st = "none" /\ unit'.kind = "txn" /\ unit'.pc = "init" /\ unit'.set = {}
         \/ unit'.st = "failed" /\ unit'.kind = unit.kind /\ unit'.pc = unit.pc
  <2>1. CASE act.pc = "done"
    BY <2>1, Idle DEF SwitchActed, Ended
  <2>2. CASE act.pc # "done"
    <3>1. unit' = Ended(FALSE)
      BY <2>2 DEF SwitchActed, Ended
    <3> QED
      BY <1>1, <3>1, EndedUnit
  <2> QED
    BY <2>1, <2>2
<1>3. TypeOK'
  BY <1>1, <1>2, Idle DEF IInv, TypeOK, SwitchActed
<1>4. UnitInv' /\ ActInv'
  BY <1>1, <1>2, Idle DEF IInv, Inv, UnitInv, ActInv
<1>5. ~Txn /\ ~Txn' /\ ~Failed'
  BY <1>1, <1>2 DEF Txn, Failed
<1> QED
  BY <1>1, <1>3, <1>4, <1>5, Idle, Aside DEF IInv, Inv

-----------------------------------------------------------------------------
(* Requests, reboots and power losses                                      *)

\* The steps of a request that only read, write the script or give up leave the
\* units alone.
LEMMA Request_Inv ==
  ASSUME IInv, NEW r \in Req, Check(r) \/ Stopped(r) \/ GiveUp(r) \/ WriteScript(r)
  PROVE  IInv'
<1>1. UNCHANGED <<gens, profile, current, live, marker, unit, detached, act, power, tainted>>
  BY DEF Check, Stopped, GiveUp, WriteScript
<1>2. UNCHANGED <<booted, entry, recovered>>
  BY DEF Check, Stopped, GiveUp, WriteScript
<1>3. req' \in [Req -> Request] /\ script' \in Gen /\ events' \in 0 .. MaxEvents
  <2>1. CASE Check(r)
    <3>1. PICK k \in Kind, g \in Gen :
            req' = [req EXCEPT ![r] = [pc |-> "checked", kind |-> k, gen |-> g]]
      BY <2>1 DEF Check
    <3>2. [pc |-> "checked", kind |-> k, gen |-> g] \in Request
      BY DEF Request
    <3>3. req' \in [Req -> Request]
      BY <3>1, <3>2 DEF IInv, TypeOK
    <3> QED
      BY <2>1, <3>3 DEF IInv, TypeOK, Check, Event
  <2>2. CASE Stopped(r)
    BY <2>2 DEF IInv, TypeOK, Stopped, Request
  <2>3. CASE GiveUp(r)
    BY <2>3, Idle DEF IInv, TypeOK, GiveUp
  <2>4. CASE WriteScript(r)
    BY <2>4 DEF IInv, TypeOK, WriteScript, Request
  <2> QED
    BY <2>1, <2>2, <2>3, <2>4
<1>4. TypeOK'
  BY <1>1, <1>2, <1>3 DEF IInv, TypeOK
<1> QED
  BY <1>1, <1>4, Frame DEF IInv

\* A script is told to stop, by a request or by a reboot: it rolls back, or it dies
\* where it is.
LEMMA Interrupted ==
  ASSUME IInv, unit.st = "running", unit' \in Terminated, act' = Cut,
         UNCHANGED <<gens, profile, current, live, marker, detached>>,
         tainted \subseteq tainted',
         \/ /\ "stop" \in tainted' /\ power' = power
            /\ unit.pc = "unmarked" => "window" \in tainted'
         \/ power' = "down"
  PROVE  unit' \in Unit /\ act' \in Activation /\ Inv'
<1>1. /\ unit \in Unit /\ act \in Activation /\ marker \in BOOLEAN
      /\ unit.kind = "txn" => unit.pc \in TxnPc \cup RollbackPc
  BY DEF IInv, TypeOK, Inv, UnitInv
<1>2. /\ act' \in Activation
      /\ act.by # "unit" => act' = act
      /\ act.by = "unit" /\ act.pc = "lock" =>
            act'.by = "service" /\ act'.pc = "lock" /\ act'.to = act.to
      /\ act.by = "unit" /\ act.pc # "lock" => act'.by = "none" /\ act'.pc = "done"
  <2>1. CASE act.by = "unit" /\ act.pc = "lock"
    BY <1>1, <2>1 DEF Cut, Activation
  <2>2. CASE ~(act.by = "unit" /\ act.pc = "lock")
    BY <1>1, <2>2, Idle DEF Cut
  <2> QED
    BY <2>1, <2>2
<1>3. ~Clean' /\ ~Sound' /\ (Steady' => Steady /\ unit.pc # "unmarked")
  BY DEF Clean, Sound, Steady
<1>4. CASE unit.kind = "txn" /\ unit.pc \in TxnPc \ {"init"}
  <2>1. PICK d \in BOOLEAN : unit' = RollBack([unit EXCEPT !.stopping = TRUE], d)
    BY <1>4 DEF Terminated
  <2>2. /\ unit' \in Unit /\ unit'.st = "running" /\ unit'.kind = "txn" /\ unit'.pc = "rbmark"
        /\ unit'.old = unit.old /\ unit'.gen = unit.gen /\ unit'.backup = unit.backup
        /\ unit'.stage = unit.stage /\ unit'.set = unit.set /\ unit'.stopping
    BY <1>1, <1>4, <2>1 DEF RollBack, Unit
  <2>3. Txn
    BY <1>4 DEF Txn
  <2>4. UnitInv' /\ ActInv'
    BY <1>2, <2>2 DEF IInv, Inv, UnitInv, ActInv
  <2>5. DetachedInv' /\ FailInv' /\ PairInv'
    BY <1>3, <2>2, <2>3 DEF IInv, Inv, DetachedInv, FailInv, PairInv, Failed
  <2>6. FlagInv'
    BY <1>3, <1>4, <2>2, <2>3 DEF IInv, Inv, FlagInv, Before, After
  <2>7. StepInv'
    BY <1>2, <1>3, <2>2, <2>3 DEF IInv, Inv, StepInv
  <2> QED
    BY <1>2, <2>2, <2>4, <2>5, <2>6, <2>7 DEF Inv
<1>5. CASE ~(unit.kind = "txn" /\ unit.pc \in TxnPc \ {"init"})
  <2>1. /\ unit' \in Unit /\ unit'.st = "failed" /\ ~unit'.stopping
        /\ unit'.kind = unit.kind /\ unit'.pc = unit.pc /\ unit'.old = unit.old
        /\ unit'.gen = unit.gen /\ unit'.backup = unit.backup /\ unit'.stage = unit.stage
        /\ unit'.set = unit.set
    <3>1. unit' = Ended(FALSE)
      BY <1>5 DEF Terminated
    <3> QED
      BY <1>1, <3>1, EndedUnit
  <2>2. ~Txn' /\ (Failed' => Txn /\ unit.pc \in RollbackPc)
    BY <1>1, <1>5, <2>1 DEF Txn, Failed
  <2>3. UnitInv' /\ ActInv'
    BY <1>2, <2>1 DEF IInv, Inv, UnitInv, ActInv
  <2>4. DetachedInv' /\ FlagInv' /\ StepInv' /\ PairInv'
    BY <1>2, <1>3, <2>1, <2>2 DEF IInv, Inv, DetachedInv, FlagInv, StepInv, PairInv
  <2>5. FailInv'
    <3>1. SUFFICES ASSUME Steady', Failed'
                   PROVE  act'.by \in {"none", "detached"} /\ (marker' \/ Before' \/ After')
      BY DEF FailInv
    <3>2. Steady /\ Txn /\ unit.pc \in RollbackPc
      BY <1>3, <2>2, <3>1
    <3>3. act'.by \in {"none", "detached"}
      BY <1>2, <3>2 DEF IInv, Inv, StepInv
    <3>4. marker \/ Before \/ After
      BY <3>2 DEF IInv, Inv, FlagInv
    <3>5. (Before => Before') /\ (After => After')
      BY <2>1 DEF Before, After
    <3> QED
      BY <3>3, <3>4, <3>5
  <2> QED
    BY <1>2, <2>1, <2>3, <2>4, <2>5 DEF Inv
<1> QED
  BY <1>4, <1>5

\* A request stops the running unit: the script rolls back and the state is tainted.
LEMMA Stop_Inv ==
  ASSUME IInv, NEW r \in Req, Stop(r)
  PROVE  IInv'
<1>1. /\ unit \in Unit /\ act \in Activation /\ power' = power
      /\ UNCHANGED <<gens, profile, current, live, marker, detached>>
      /\ req' \in [Req -> Request]
  BY DEF IInv, TypeOK, Stop, Request
<1>2. CASE unit.st = "running" /\ ~unit.stopping
  <2>1. /\ unit' \in Terminated /\ act' = Cut
        /\ tainted' = tainted \cup {"stop"} \cup {w \in {"window"} : At("txn", "unmarked")}
    BY <1>2 DEF Stop
  <2>2. unit' \in Unit /\ act' \in Activation /\ Inv'
    <3>1. unit.pc = "unmarked" => At("txn", "unmarked")
      BY <1>2 DEF IInv, Inv, UnitInv, At
    <3> QED
      BY <1>1, <1>2, <2>1, <3>1, Interrupted
  <2> QED
    BY <1>1, <2>1, <2>2 DEF IInv, TypeOK, Stop
<1>3. CASE unit.st = "running" /\ unit.stopping
  <2>1. UNCHANGED <<unit, act, tainted>>
    BY <1>3 DEF Stop
  <2> QED
    BY <1>1, <2>1, Frame DEF IInv, TypeOK, Stop
<1>4. CASE unit.st # "running"
  <2>1. unit' = NoUnit /\ UNCHANGED <<act, tainted>>
    BY <1>4 DEF Stop
  <2>2. TypeOK'
    BY <1>1, <2>1, Idle DEF IInv, TypeOK, Stop
  <2>3. UnitInv' /\ ActInv'
    BY <1>1, <1>4, <2>1, Idle DEF IInv, Inv, UnitInv, ActInv
  <2>4. ~Txn /\ ~Txn' /\ ~Failed'
    BY <1>4, <2>1, Idle DEF Txn, Failed
  <2> QED
    BY <1>1, <2>1, <2>2, <2>3, <2>4, Aside DEF IInv, Inv
<1> QED
  BY <1>2, <1>3, <1>4

\* A request starts a script where no unit is loaded.
LEMMA Start_Inv ==
  ASSUME IInv, NEW r \in Req, Start(r)
  PROVE  IInv'
<1>1. /\ unit \in Unit /\ req[r] \in Request
      /\ UNCHANGED <<gens, profile, current, live, marker, detached, act, power, tainted>>
  BY DEF IInv, TypeOK, Start
<1>2. req' \in [Req -> Request]
  BY Idle DEF IInv, TypeOK, Start
<1>3. CASE unit.st # "none"
  <2>1. UNCHANGED unit
    BY <1>3 DEF Start
  <2>2. TypeOK'
    BY <1>1, <1>2, <2>1 DEF IInv, TypeOK, Start
  <2> QED
    BY <1>1, <2>1, <2>2, Frame DEF IInv
<1>4. CASE unit.st = "none"
  <2> DEFINE k == req[r].kind
             pc == IF k = "txn" THEN "init" ELSE "pick"
  <2>1. k \in Kind /\ pc \in {"init", "pick"} /\ (k = "txn" <=> pc = "init")
    BY <1>1 DEF Request
  <2>2. unit' = [NoUnit EXCEPT !.st = "running", !.kind = k, !.pc = pc]
    BY <1>4 DEF Start
  <2> HIDE DEF k, pc
  <2>3. /\ unit' \in Unit /\ unit'.st = "running" /\ unit'.kind = k /\ unit'.pc = pc
        /\ unit'.set = {} /\ ~unit'.detach /\ ~unit'.stopping
    BY <2>1, <2>2, Idle DEF Unit
  <2>4. TypeOK'
    BY <1>1, <1>2, <2>3 DEF IInv, TypeOK, Start
  <2>5. UnitInv' /\ ActInv'
    BY <1>1, <1>4, <2>1, <2>3 DEF IInv, Inv, UnitInv, ActInv, Start
  <2>6. ~Txn /\ ~Txn' /\ ~Failed'
    BY <1>4, <2>1, <2>3 DEF Txn, Failed
  <2> QED
    BY <1>1, <2>4, <2>5, <2>6, Aside DEF IInv, Inv
<1> QED
  BY <1>3, <1>4

\* A stop that takes too long kills a script that is rolling back.
LEMMA StopTimeout_Inv ==
  ASSUME IInv, StopTimeout
  PROVE  IInv'
<1>1. /\ Txn /\ unit.pc \in RollbackPc /\ unit \in Unit
      /\ "stop" \in tainted \/ power = "down"
      /\ UNCHANGED <<gens, profile, current, live, marker, detached, power, tainted>>
  BY DEF IInv, TypeOK, Inv, UnitInv, StopTimeout, Txn
<1>2. unit' \in Terminated /\ act' = Cut
  BY <1>1 DEF StopTimeout, Terminated
<1>3. unit' \in Unit /\ act' \in Activation /\ Inv'
  BY <1>1, <1>2, Interrupted DEF IInv, TypeOK, Txn
<1> QED
  BY <1>1, <1>3 DEF IInv, TypeOK, StopTimeout

\* Deleting a generation may remove the profile's own link: what the invariant says of
\* the link it says while the link exists.
LEMMA delete_generation_Inv ==
  ASSUME IInv, NEW g \in Gen, delete_generation(g)
  PROVE  IInv'
<1>1. /\ gens' = Restrict(gens, DOMAIN gens \ {g})
      /\ UNCHANGED <<profile, current, live, marker, unit, detached, act, power, tainted>>
  BY DEF delete_generation
<1>2. PICK G \in SUBSET Gen : gens \in [G -> Closure]
  BY DEF IInv, TypeOK
<1>3. gens' \in [G \ {g} -> Closure] /\ \A h \in G \ {g} : gens'[h] = gens[h]
  BY <1>1, <1>2 DEF Restrict
<1>4. TypeOK'
  <2>1. \E S \in SUBSET Gen : gens' \in [S -> Closure]
    BY <1>3
  <2>2. UNCHANGED <<entry, booted, recovered, script, req>> /\ events' \in 0 .. MaxEvents
    BY DEF IInv, TypeOK, delete_generation, Event
  <2> QED
    BY <1>1, <2>1, <2>2 DEF IInv, TypeOK
<1>5. profile' \in DOMAIN gens' => profile \in DOMAIN gens /\ gens'[profile'] = gens[profile]
  BY <1>1, <1>2, <1>3
<1>6. UnitInv' /\ ActInv' /\ DetachedInv' /\ PairInv'
  BY <1>1 DEF IInv, Inv, UnitInv, ActInv, DetachedInv, PairInv, Steady, Clean, Sound, Txn, Failed
<1>7. FlagInv'
  BY <1>1, <1>5 DEF IInv, Inv, FlagInv, Steady, Txn, Before, After
<1>8. StepInv'
  BY <1>1, <1>5 DEF IInv, Inv, StepInv, Steady, Txn, Before
<1>9. FailInv'
  BY <1>1, <1>5 DEF IInv, Inv, FailInv, Steady, Failed, Before, After
<1> QED
  BY <1>4, <1>6, <1>7, <1>8, <1>9 DEF IInv, Inv

\* A reboot stops the script, which may roll back until the power goes.
LEMMA reboot_Inv ==
  ASSUME IInv, reboot
  PROVE  IInv'
<1>1. /\ unit \in Unit /\ act \in Activation /\ power' = "down"
      /\ UNCHANGED <<gens, profile, current, live, marker, detached, tainted>>
      /\ req' \in [Req -> Request]
  BY Idle DEF IInv, TypeOK, reboot
<1>2. CASE StatusRunning
  <2>1. unit' \in Terminated /\ act' = Cut
    BY <1>2 DEF reboot
  <2>2. unit' \in Unit /\ act' \in Activation /\ Inv'
    BY <1>1, <1>2, <2>1, Interrupted DEF StatusRunning
  <2> QED
    BY <1>1, <2>2 DEF IInv, TypeOK, reboot, Event
<1>3. CASE ~StatusRunning
  <2>1. UNCHANGED <<unit, act>>
    BY <1>3 DEF reboot
  <2>2. TypeOK'
    BY <1>1, <2>1 DEF IInv, TypeOK, reboot, Event
  <2>3. UnitInv' /\ ActInv'
    BY <1>1, <1>3, <2>1 DEF IInv, Inv, UnitInv, ActInv, StatusRunning
  <2>4. ~Steady' /\ ~Clean' /\ ~Sound'
    BY <1>1 DEF Steady, Clean, Sound
  <2> QED
    BY <2>2, <2>3, <2>4 DEF IInv, Inv, DetachedInv, FlagInv, StepInv, FailInv, PairInv
<1> QED
  BY <1>2, <1>3

\* A power loss forgets /run and every process; the boot recovers the pair of the
\* system it boots.
LEMMA PowerCycle_Inv ==
  ASSUME IInv, PowerCycle
  PROVE  IInv'
<1>1. /\ unit' = NoUnit /\ detached' = {} /\ marker' = FALSE /\ current' = entry
      /\ power' = "on" /\ tainted' = {}
      /\ act' = [by |-> "boot", to |-> entry, pc |-> "recover"] /\ recovered' = FALSE
  BY DEF PowerCycle
<1>2. TypeOK'
  <2>1. act' \in Activation
    BY <1>1 DEF IInv, TypeOK, Activation
  <2>2. script' \in Gen /\ req' \in [Req -> Request]
    BY Idle DEF PowerCycle, Gen
  <2>3. /\ UNCHANGED <<gens, profile, entry, live>> /\ booted' = entry
        /\ events' \in 0 .. MaxEvents
    BY DEF IInv, TypeOK, PowerCycle, Event
  <2> QED
    BY <1>1, <2>1, <2>2, <2>3, Idle DEF IInv, TypeOK
<1>3. UnitInv' /\ ActInv'
  BY <1>1, Idle DEF UnitInv, ActInv
<1>4. ~Txn' /\ ~Failed'
  BY <1>1, Idle DEF Txn, Failed
<1>5. DetachedInv' /\ FlagInv' /\ StepInv' /\ FailInv' /\ PairInv'
  BY <1>1, <1>4 DEF DetachedInv, FlagInv, StepInv, FailInv, PairInv
<1> QED
  BY <1>2, <1>3, <1>5 DEF IInv, Inv

-----------------------------------------------------------------------------
(* The theorems                                                            *)

\* A freshly installed box satisfies the invariant.
LEMMA Init_Inv == Init => IInv
<1> SUFFICES ASSUME Init PROVE IInv
  OBVIOUS
<1>1. TypeOK
  <2>1. {1} \in SUBSET Gen /\ gens \in [{1} -> Closure]
    BY DEF Init, Gen
  <2>2. live \in FlakePair /\ profile \in Gen /\ script \in Gen
    BY DEF Init, FlakePair, Gen
  <2>3. \E G \in SUBSET Gen : gens \in [G -> Closure]
    BY <2>1
  <2>4. {current, booted, entry} \subseteq Closure
    BY DEF Init
  <2>5. unit \in Unit /\ act \in Activation
    BY Idle DEF Init
  <2>6. req \in [Req -> Request]
    BY Idle DEF Init
  <2>7. {marker, recovered} \subseteq BOOLEAN
    BY DEF Init
  <2>8. detached \subseteq [old : Closure, pc : {"start", "act", "wait"}]
    BY DEF Init
  <2>9. events \in 0 .. MaxEvents
    BY DEF Init
  <2>10. /\ power \in {"on", "down"}
         /\ tainted \subseteq {"stop", "retry", "restore", "window", "recovery"}
    BY DEF Init
  <2> QED
    BY <2>2, <2>3, <2>4, <2>5, <2>6, <2>7, <2>8, <2>9, <2>10 DEF TypeOK
<1>2. UnitInv /\ ActInv
  BY Idle DEF Init, UnitInv, ActInv
<1>3. ~Txn /\ ~Failed
  BY Idle DEF Init, Txn, Failed
<1>4. DetachedInv /\ FlagInv /\ StepInv /\ FailInv /\ PairInv
  BY <1>3 DEF Init, DetachedInv, FlagInv, StepInv, FailInv, PairInv
<1> QED
  BY <1>1, <1>2, <1>4 DEF IInv, Inv

\* The inductive invariant holds in every reachable state.
THEOREM Invariance == Spec => []IInv
<1>1. IInv /\ [Next]_vars => IInv'
  <2> SUFFICES ASSUME IInv, [Next]_vars PROVE IInv'
    OBVIOUS
  <2>1. CASE ActEntry \/ ActFlip \/ ActFails \/ Recover \/ RecoverLock
    BY <2>1, ActEntry_Inv, ActFlip_Inv, ActFails_Inv, Recover_Inv, RecoverLock_Inv
  <2>2. CASE TxnBegin \/ Build \/ Mark \/ SetFlag \/ InstallNix \/ InstallLock \/ SetProfile
             \/ TxnFails
    BY <2>2, TxnBegin_Inv, Build_Inv, Mark_Inv, SetFlag_Inv, InstallNix_Inv, InstallLock_Inv,
       SetProfile_Inv, TxnFails_Inv
  <2>3. CASE TxnActivate \/ TxnRestartRecovery \/ TxnActed \/ Healthy \/ Unmark \/ Commit
    BY <2>3, TxnActivate_Inv, TxnRestartRecovery_Inv, TxnActed_Inv, Healthy_Inv, Unmark_Inv,
       Commit_Inv
  <2>4. CASE RbMark \/ RbNix \/ RbLock \/ RbGen \/ RbDetach \/ RbActivate \/ RbActed
             \/ RbWait \/ RbEnd
    BY <2>4, RbMark_Inv, RbNix_Inv, RbLock_Inv, RbGen_Inv, RbDetach_Inv, RbActivate_Inv,
       RbActed_Inv, RbWait_Inv, RbEnd_Inv
  <2>5. CASE \E d \in detached : DetachedActivate(d) \/ DetachedActed(d) \/ DetachedEnd(d)
    BY <2>5, DetachedActivate_Inv, DetachedActed_Inv, DetachedEnd_Inv
  <2>6. CASE Pick \/ SwitchActivate \/ SwitchActed
    BY <2>6, Pick_Inv, SwitchActivate_Inv, SwitchActed_Inv
  <2>7. CASE \E r \in Req : Check(r) \/ Stop(r) \/ Stopped(r) \/ GiveUp(r)
                            \/ WriteScript(r) \/ Start(r)
    BY <2>7, Request_Inv, Stop_Inv, Start_Inv
  <2>8. CASE StopTimeout \/ (\E g \in Gen : delete_generation(g)) \/ reboot \/ PowerCycle
    BY <2>8, StopTimeout_Inv, delete_generation_Inv, reboot_Inv, PowerCycle_Inv
  <2>9. CASE UNCHANGED vars
    <3>1. UNCHANGED <<gens, profile, current, live, marker, unit, detached, act, power, tainted>>
      BY <2>9 DEF vars
    <3>2. TypeOK'
      BY <2>9 DEF IInv, TypeOK, vars
    <3> QED
      BY <3>1, <3>2, Frame DEF IInv
  <2> QED
    BY <2>1, <2>2, <2>3, <2>4, <2>5, <2>6, <2>7, <2>8, <2>9 DEF Next
<1> QED
  BY <1>1, Init_Inv, PTL DEF Spec

\* Every variable of the update service keeps its type, however requests, scripts,
\* activations, reboots and power losses interleave.
THEOREM TypeCorrect == Spec => []TypeOK
<1>1. IInv => TypeOK
  BY DEF IInv
<1> QED
  BY <1>1, Invariance, PTL

\* Whenever nothing runs and no marker suppresses the recovery, /etc/nixos holds the
\* flake pair of the active system, unless since the boot a recovery failed that none
\* has made good, or one of the other events `tainted` names happened (update.rs;
\* nasty.nix: recover-generation-flake, each command of which may fail).
THEOREM PairIsTrue == Spec => []PairTruth
<1>1. ASSUME IInv PROVE PairTruth
  <2>1. SUFFICES ASSUME Quiet, ~marker, tainted = {}
                 PROVE  live = Pair(current, current)
    BY DEF PairTruth
  <2>2. Clean /\ ~Txn /\ act.by = "none"
    BY <2>1 DEF Quiet, Clean, Sound, Txn
  <2>3. act.pc = "done"
    BY <1>1, <2>2 DEF IInv, Inv, ActInv
  <2> QED
    BY <1>1, <2>1, <2>2, <2>3 DEF IInv, Inv, PairInv
<1> QED
  BY <1>1, Invariance, PTL

\* A transaction that failed has been undone as a whole, or finished as a whole, unless
\* the marker says otherwise, also when requests stopped it in the middle of its work or
\* of its rollback or a recovery failed.  A stop between the removal of the marker and
\* MARKER_SET=false, a file the rollback could not write and another's marker are
\* excepted (update.rs: rollback_transaction and its detached unit).
THEOREM UndoneOrFinished == Spec => []AllOrNothing
<1>1. ASSUME IInv PROVE AllOrNothing
  <2>1. SUFFICES ASSUME Quiet, ~marker, tainted \subseteq {"stop", "recovery"}, unit.st = "failed",
                        unit.kind = "txn", unit.pc # "init"
                 PROVE  Before \/ After
    BY DEF AllOrNothing, Before, After
  <2>2. Steady /\ Failed
    BY <2>1 DEF Quiet, Steady, Failed
  <2> QED
    BY <1>1, <2>1, <2>2 DEF IInv, Inv, FailInv
<1> QED
  BY <1>1, Invariance, PTL

\* A transaction that ends with success has made its system the active one, the
\* profile's and the owner of the live pair (update.rs: the last lines of the script).
THEOREM CommitIsHonest == Spec => CommitHonest
<1>1. ASSUME IInv, [Next]_vars, unit.st = "running", unit.kind = "txn", unit' = NoUnit,
             act'.by # "boot", tainted \subseteq {"stop", "recovery"}
      PROVE  After
  <2>1. unit \in Unit /\ unit'.st = "none"
    BY <1>1, Idle DEF IInv, TypeOK
  <2>2. unit' # unit
    BY <1>1, <2>1
  <2>3. Commit
    <3>0. ~SetFlag
      BY <1>1, <2>1 DEF SetFlag, Unit
    <3>1. ~(ActEntry \/ ActFlip \/ ActFails \/ Recover \/ RecoverLock)
      BY <2>2 DEF ActEntry, ActFlip, ActFails, Recover, RecoverLock
    <3>2. ~(TxnBegin \/ Build \/ Mark \/ InstallNix \/ InstallLock \/ SetProfile)
      BY <1>1, <2>1 DEF TxnBegin, Build, Mark, InstallNix, InstallLock, SetProfile, Ended, Unit
    <3>3. ~(TxnFails \/ TxnActivate \/ TxnRestartRecovery \/ TxnActed \/ Healthy \/ Unmark)
      BY <1>1, <2>1 DEF TxnFails, TxnActivate, TxnRestartRecovery, TxnActed, Healthy, Unmark,
                        RollBack, Unit
    <3>4. ~(RbMark \/ RbNix \/ RbLock \/ RbGen \/ RbDetach)
      BY <1>1, <2>1 DEF RbMark, RbNix, RbLock, RbGen, RbDetach, Ended, Unit
    <3>5. ~(RbActivate \/ RbActed \/ RbWait \/ RbEnd)
      BY <1>1, <2>1 DEF RbActivate, RbActed, RbWait, RbEnd, Ended, Unit
    <3>6. ~\E d \in detached : DetachedActivate(d) \/ DetachedActed(d) \/ DetachedEnd(d)
      BY <2>2 DEF DetachedActivate, DetachedActed, DetachedEnd
    <3>7. ~(Pick \/ SwitchActivate \/ SwitchActed \/ StopTimeout)
      BY <1>1, <2>1 DEF Pick, SwitchActivate, SwitchActed, StopTimeout, Ended, Unit, IInv, Inv,
                        UnitInv
    <3>8. ASSUME unit' \in Terminated PROVE FALSE
      <4>1. CASE unit.kind = "txn" /\ unit.pc \in TxnPc \ {"init"}
        <5>1. PICK d \in BOOLEAN : unit' = RollBack([unit EXCEPT !.stopping = TRUE], d)
          BY <3>8, <4>1 DEF Terminated
        <5>2. unit'.st = unit.st
          BY <2>1, <5>1 DEF RollBack, Unit
        <5> QED
          BY <1>1, <2>1, <5>2
      <4>2. CASE ~(unit.kind = "txn" /\ unit.pc \in TxnPc \ {"init"})
        <5>1. unit' = Ended(FALSE)
          BY <3>8, <4>2 DEF Terminated
        <5>2. unit'.st = "failed"
          BY <2>1, <5>1, EndedUnit
        <5> QED
          BY <2>1, <5>2
      <4> QED
        BY <4>1, <4>2
    <3>9. ~\E r \in Req : Check(r) \/ Stop(r) \/ Stopped(r) \/ GiveUp(r)
                          \/ WriteScript(r) \/ Start(r)
      BY <1>1, <2>1, <2>2, <3>8 DEF Check, Stop, Stopped, GiveUp, WriteScript, Start
    <3>10. ~((\E g \in Gen : delete_generation(g)) \/ reboot \/ PowerCycle)
      <4>1. ~\E g \in Gen : delete_generation(g)
        BY <2>2 DEF delete_generation
      <4>2. ~reboot
        BY <2>2, <3>8 DEF reboot
      <4>3. ~PowerCycle
        BY <1>1 DEF PowerCycle
      <4> QED
        BY <4>1, <4>2, <4>3
    <3>11. ~UNCHANGED vars
      BY <2>2 DEF vars
    <3> QED
      BY <1>1, <3>0, <3>1, <3>2, <3>3, <3>4, <3>5, <3>6, <3>7, <3>9, <3>10, <3>11 DEF Next
  <2>4. Txn /\ unit.pc = "cmp"
    BY <2>3 DEF Commit, At, Txn
  <2>5. power = "on"
    BY <1>1, <2>4 DEF IInv, Inv, UnitInv, TypeOK
  <2>6. Steady
    BY <1>1, <2>5 DEF Steady
  <2> QED
    BY <1>1, <2>4, <2>6 DEF IInv, Inv, FlagInv
<1>2. ASSUME IInv, [Next]_vars
      PROVE  [unit.st = "running" /\ unit.kind = "txn" /\ unit' = NoUnit /\ act'.by # "boot"
              /\ tainted \subseteq {"stop", "recovery"}
              => /\ current = unit.stage /\ live = Pair(unit.stage, unit.stage)
                 /\ profile \in DOMAIN gens => gens[profile] = unit.stage]_vars
  BY <1>1, <1>2 DEF After
<1> QED
  BY <1>2, Invariance, PTL DEF Spec, CommitHonest

-----------------------------------------------------------------------------
(* A rollback that gives up leaves its marker                              *)

GaveUp == unit.kind = "txn" /\ ~unit.ok

\* A rollback in which something failed has made its marker, or the marker was there,
\* and nobody is left to remove it.
MarkInv ==
    Steady /\ GaveUp =>
       /\ unit.st = "running" => unit.pc \in {"rbgen", "rbact", "rbend"} /\ "marker" \in unit.set
       /\ unit.st = "failed" => marker /\ detached = {}

\* A step that is not one of the script's.
LEMMA Mark_Frame ==
  ASSUME MarkInv, Steady' => Steady, UNCHANGED <<unit, marker, detached>>
  PROVE  MarkInv'
  BY DEF MarkInv, GaveUp

\* Nothing of a rollback has failed where it has not begun, or is at its first steps.
LEMMA Mark_Forward ==
  ASSUME MarkInv, Steady' => Steady, unit.st = "running", unit.kind = "txn",
         unit.pc \notin {"rbgen", "rbact", "rbend"}, unit'.ok = unit.ok
  PROVE  MarkInv'
  BY DEF MarkInv, GaveUp

\* The script in its rollback goes on to one of its last steps.
LEMMA Mark_Rollback ==
  ASSUME Steady' => Steady, unit'.st = "running", unit'.pc \in {"rbgen", "rbact", "rbend"},
         Steady /\ ~unit'.ok => "marker" \in unit'.set
  PROVE  MarkInv'
  BY DEF MarkInv, GaveUp

\* An idle unit, and one that has just been started, has no rollback.
LEMMA Mark_Ok ==
  ASSUME unit'.ok
  PROVE  MarkInv'
  BY DEF MarkInv, GaveUp

\* The script is killed, or ends, in its rollback: its flag says that the marker is
\* there, and no detached rollback of another is.
LEMMA Mark_Ends ==
  ASSUME IInv, MarkInv, Steady' => Steady, unit.st = "running", unit' = Ended(FALSE),
         UNCHANGED <<marker, detached>>
  PROVE  MarkInv'
<1>1. /\ unit \in Unit /\ unit'.kind = unit.kind /\ unit'.st = "failed"
      /\ unit'.ok = unit.ok
  BY EndedUnit DEF IInv, TypeOK, Ended, Unit
<1>2. ASSUME Steady, unit.kind = "txn", ~unit.ok
      PROVE  marker /\ detached = {}
  <2>1. Txn /\ unit.pc \in {"rbgen", "rbact", "rbend"} /\ "marker" \in unit.set
    BY <1>2 DEF MarkInv, GaveUp, Txn
  <2> QED
    BY <1>2, <2>1 DEF IInv, Inv, FlagInv, DetachedInv
<1> QED
  BY <1>1, <1>2 DEF MarkInv, GaveUp

\* A trap, or the end of a script that has none.
LEMMA Mark_Terminated ==
  ASSUME IInv, MarkInv, Steady' => Steady, unit.st = "running", unit' \in Terminated,
         UNCHANGED <<marker, detached>>
  PROVE  MarkInv'
<1>1. CASE unit.kind = "txn" /\ unit.pc \in TxnPc \ {"init"}
  <2>1. PICK d \in BOOLEAN : unit' = RollBack([unit EXCEPT !.stopping = TRUE], d)
    BY <1>1 DEF Terminated
  <2>2. unit'.ok = unit.ok
    BY <2>1 DEF RollBack, IInv, TypeOK, Unit
  <2> QED
    BY <1>1, <2>2, Mark_Forward
<1>2. CASE ~(unit.kind = "txn" /\ unit.pc \in TxnPc \ {"init"})
  <2>1. unit' = Ended(FALSE)
    BY <1>2 DEF Terminated
  <2> QED
    BY <2>1, Mark_Ends
<1> QED
  BY <1>1, <1>2

\* The transaction from its first test to its commit.
LEMMA Mark_Txn ==
  ASSUME IInv, MarkInv,
         \/ TxnBegin \/ Build \/ Mark \/ SetFlag \/ InstallNix \/ InstallLock \/ SetProfile
         \/ TxnFails \/ TxnActed \/ Healthy \/ Unmark \/ Commit
  PROVE  MarkInv'
<1>1. /\ unit \in Unit /\ unit.st = "running" /\ unit.kind = "txn" /\ unit.pc \in TxnPc
      /\ power' = power /\ tainted \subseteq tainted'
  BY DEF IInv, TypeOK, At, TxnBegin, Build, Mark, SetFlag, InstallNix, InstallLock,
         SetProfile, TxnFails, TxnActed, Healthy, Unmark, Commit
<1>2. Steady' => Steady
  BY <1>1 DEF Steady
<1>3. unit'.ok = unit.ok \/ unit'.ok
  <2>1. CASE TxnBegin
    BY <1>1, <2>1 DEF TxnBegin, Ended, Unit
  <2>2. CASE Build \/ Mark \/ InstallNix \/ InstallLock \/ SetProfile \/ Healthy \/ Unmark
    BY <1>1, <2>2 DEF Build, Mark, InstallNix, InstallLock, SetProfile, Healthy, Unmark, Unit
  <2>3. CASE SetFlag
    BY <1>1, <2>3 DEF SetFlag, Unit
  <2>4. CASE TxnFails \/ TxnActed
    BY <1>1, <2>4 DEF TxnFails, TxnActed, RollBack, Unit
  <2>5. CASE Commit
    BY <1>1, <2>5 DEF Commit, RollBack, NoUnit, Unit
  <2> QED
    BY <2>1, <2>2, <2>3, <2>4, <2>5
<1> QED
  BY <1>1, <1>2, <1>3, Mark_Forward, Mark_Ok

\* The rollback up to its last step.
LEMMA Mark_RollsBack ==
  ASSUME IInv, MarkInv,
         \/ RbMark \/ RbNix \/ RbLock \/ RbGen \/ RbDetach \/ RbActivate \/ RbActed \/ RbWait
  PROVE  MarkInv'
<1>1. /\ unit \in Unit /\ Txn /\ unit.st = "running" /\ unit.kind = "txn"
      /\ power' = power /\ tainted \subseteq tainted'
  BY DEF IInv, TypeOK, At, Txn, RbMark, RbNix, RbLock, RbGen, RbDetach, RbActivate, RbActed,
         RbWait
<1>2. Steady' => Steady
  BY <1>1 DEF Steady
<1>3. CASE RbMark
  <2>1. CASE unit'.ok = unit.ok
    BY <1>1, <1>2, <1>3, <2>1, Mark_Forward DEF RbMark, At
  <2>2. CASE "restore" \in tainted'
    BY <2>2 DEF MarkInv, Steady
  <2> QED
    BY <1>1, <1>3, <2>1, <2>2 DEF RbMark, Unit
<1>4. CASE RbNix
  <2>1. unit'.ok = unit.ok /\ unit.pc = "rbnix"
    BY <1>1, <1>4 DEF RbNix, At, Unit
  <2> QED
    BY <1>1, <1>2, <2>1, Mark_Forward
<1>5. CASE RbLock
  <2>1. /\ unit.pc = "rblock" /\ unit'.st = "running" /\ unit'.pc \in {"rbgen", "rbend"}
        /\ unit'.set = unit.set /\ (unit'.ok = unit.ok \/ "live" \in unit.set)
    BY <1>1, <1>5 DEF RbLock, At, Unit
  <2>2. Steady => unit.ok
    BY <1>1, <2>1 DEF MarkInv, GaveUp
  <2>3. Steady /\ "live" \in unit.set => "marker" \in unit.set
    BY <1>1, <2>1 DEF IInv, Inv, FlagInv
  <2>4. Steady /\ ~unit'.ok => "marker" \in unit'.set
    BY <2>1, <2>2, <2>3
  <2> QED
    BY <1>2, <2>1, <2>4, Mark_Rollback
<1>6. CASE RbGen \/ RbActivate \/ RbActed \/ RbWait
  <2>1. /\ unit.pc \in {"rbgen", "rbact", "rbwait"} /\ unit'.set = unit.set
        /\ unit'.st = "running" /\ unit'.pc \in {"rbgen", "rbact", "rbend", "rbwait"}
        /\ unit'.pc = "rbwait" => unit'.ok
    BY <1>1, <1>6 DEF RbGen, RbActivate, RbActed, RbWait, At, Unit
  <2>2. Steady => "marker" \in unit.set
    BY <1>1, <2>1 DEF IInv, Inv, FlagInv
  <2>3. CASE unit'.pc = "rbwait"
    BY <2>1, <2>3, Mark_Ok
  <2>4. CASE unit'.pc # "rbwait"
    BY <1>2, <2>1, <2>2, <2>4, Mark_Rollback
  <2> QED
    BY <2>3, <2>4
<1>7. CASE RbDetach
  <2>1. unit'.ok
    BY <1>1, <1>7 DEF RbDetach, Ended, Unit
  <2> QED
    BY <2>1, Mark_Ok
<1> QED
  BY <1>3, <1>4, <1>5, <1>6, <1>7

\* The rollback removes the marker only when it has not failed, and says that it failed
\* when it cannot remove it.
LEMMA Mark_RbEnd ==
  ASSUME IInv, MarkInv, RbEnd
  PROVE  MarkInv'
<1> DEFINE left == unit.detach /\ "profile" \in unit.set
           unmarks == "marker" \in unit.set /\ unit.ok /\ ~left
<1>1. /\ unit \in Unit /\ Txn /\ unit.pc = "rbend" /\ unit.kind = "txn" /\ unit.st = "running"
      /\ UNCHANGED <<power, tainted, detached>>
  BY DEF IInv, TypeOK, At, Txn, RbEnd
<1>2. Ended(FALSE) \in Unit /\ Ended(FALSE).st = "failed"
  BY <1>1, EndedUnit
<1>3. \/ marker' = (marker /\ ~unmarks) /\ unit' = [Ended(FALSE) EXCEPT !.ok = unit.ok /\ ~left]
      \/ unmarks /\ marker' = marker
  BY DEF RbEnd
<1>4. unit'.st = "failed"
  BY <1>2 DEF RbEnd, Unit
<1>5. ASSUME Steady, ~unit'.ok
      PROVE  marker' /\ detached' = {}
  <2>1. detached = {}
    BY <1>1, <1>5 DEF IInv, Inv, DetachedInv
  <2>2. CASE unmarks /\ marker' = marker
    BY <1>1, <1>5, <2>1, <2>2 DEF IInv, Inv, FlagInv
  <2>3. CASE marker' = (marker /\ ~unmarks) /\ unit' = [Ended(FALSE) EXCEPT !.ok = unit.ok /\ ~left]
    <3>1. ~(unit.ok /\ ~left)
      BY <1>2, <1>5, <2>3 DEF Unit
    <3>2. "marker" \in unit.set
      <4>1. CASE ~unit.ok
        BY <1>1, <1>5, <4>1 DEF MarkInv, GaveUp
      <4>2. CASE left
        BY <1>1, <1>5, <4>2 DEF IInv, Inv, FlagInv
      <4> QED
        BY <3>1, <4>1, <4>2
    <3>3. marker
      BY <1>1, <1>5, <3>2 DEF IInv, Inv, FlagInv
    <3>4. ~unmarks
      BY <3>1
    <3> QED
      BY <1>1, <2>1, <2>3, <3>3, <3>4
  <2> QED
    BY <1>3, <2>2, <2>3
<1> QED
  BY <1>1, <1>4, <1>5 DEF MarkInv, GaveUp, Steady

\* A rollback that failed has left the marker, also a rollback of a transaction that had
\* removed it; only a stop between the two commands that clear the marker and its flag
\* and the other exceptions of AllOrNothing leave none (update.rs rollback_transaction,
\* lines 412 and 489).
THEOREM GivenUpIsMarked == Spec => []FailedRollbackSuppresses
<1>1. Init => MarkInv
  <2>1. NoUnit.ok
    BY DEF NoUnit
  <2> QED
    BY <2>1 DEF Init, MarkInv, GaveUp
<1>2. ASSUME IInv, MarkInv, [Next]_vars PROVE MarkInv'
  <2>0. unit \in Unit /\ NoUnit.ok
    BY <1>2 DEF IInv, TypeOK, NoUnit
  <2>1. CASE \/ ActEntry \/ ActFlip \/ ActFails \/ TxnActivate \/ TxnRestartRecovery
             \/ \E g \in Gen : delete_generation(g)
    <3>1. UNCHANGED <<unit, marker, detached, power, tainted>>
      BY <2>1 DEF ActEntry, ActFlip, ActFails, TxnActivate, TxnRestartRecovery,
                  delete_generation
    <3> QED
      BY <1>2, <3>1, Mark_Frame DEF Steady
  <2>2. CASE Recover \/ RecoverLock
    <3>1. /\ UNCHANGED <<unit, marker, detached, power>>
          /\ tainted \subseteq tainted' \cup {"recovery"}
      BY <2>2 DEF Recover, RecoverLock, RecoverDone, RecoverFails
    <3>2. Steady' => Steady
      BY <3>1 DEF Steady
    <3> QED
      BY <1>2, <3>1, <3>2, Mark_Frame
  <2>3. CASE \/ TxnBegin \/ Build \/ Mark \/ SetFlag \/ InstallNix \/ InstallLock \/ SetProfile
             \/ TxnFails \/ TxnActed \/ Healthy \/ Unmark \/ Commit
    BY <1>2, <2>3, Mark_Txn
  <2>4. CASE \/ RbMark \/ RbNix \/ RbLock \/ RbGen \/ RbDetach \/ RbActivate \/ RbActed
             \/ RbWait
    BY <1>2, <2>4, Mark_RollsBack
  <2>5. CASE RbEnd
    BY <1>2, <2>5, Mark_RbEnd
  <2>6. CASE \E d \in detached : DetachedActivate(d) \/ DetachedActed(d) \/ DetachedEnd(d)
    <3>1. UNCHANGED <<unit, power, tainted>> /\ detached # {}
      BY <2>6 DEF DetachedActivate, DetachedActed, DetachedEnd
    <3> QED
      BY <1>2, <3>1 DEF MarkInv, GaveUp, Steady
  <2>7. CASE Pick \/ SwitchActivate \/ SwitchActed
    <3>1. unit.kind # "txn"
      BY <1>2, <2>7 DEF Pick, SwitchActivate, SwitchActed, IInv, Inv, UnitInv
    <3>2. unit'.kind = unit.kind \/ unit'.ok
      BY <2>0, <2>7 DEF Pick, SwitchActivate, SwitchActed, Ended, Unit
    <3> QED
      BY <3>1, <3>2 DEF MarkInv, GaveUp
  <2>8. CASE \E r \in Req : Check(r) \/ Stopped(r) \/ GiveUp(r) \/ WriteScript(r)
    <3>1. UNCHANGED <<unit, marker, detached, power, tainted>>
      BY <2>8 DEF Check, Stopped, GiveUp, WriteScript
    <3> QED
      BY <1>2, <3>1, Mark_Frame DEF Steady
  <2>9. ASSUME NEW r \in Req, Stop(r) PROVE MarkInv'
    <3>1. UNCHANGED <<marker, detached, power>> /\ tainted \subseteq tainted'
      BY <2>9 DEF Stop
    <3>2. Steady' => Steady
      BY <3>1 DEF Steady
    <3>3. CASE unit.st = "running" /\ ~unit.stopping
      BY <1>2, <2>9, <3>1, <3>2, <3>3, Mark_Terminated DEF Stop
    <3>4. CASE unit.st = "running" /\ unit.stopping
      BY <1>2, <2>9, <3>1, <3>2, <3>4, Mark_Frame DEF Stop
    <3>5. CASE unit.st # "running"
      BY <2>0, <2>9, <3>5, Mark_Ok DEF Stop
    <3> QED
      BY <3>3, <3>4, <3>5
  <2>10. ASSUME NEW r \in Req, Start(r) PROVE MarkInv'
    <3>1. UNCHANGED <<marker, detached, power, tainted>>
      BY <2>10 DEF Start
    <3>2. CASE unit.st = "none"
      <4>1. unit'.ok
        BY <2>10, <3>2 DEF Start, NoUnit
      <4> QED
        BY <4>1, Mark_Ok
    <3>3. CASE unit.st # "none"
      BY <1>2, <2>10, <3>1, <3>3, Mark_Frame DEF Start, Steady
    <3> QED
      BY <3>2, <3>3
  <2>11. CASE StopTimeout
    <3>1. UNCHANGED <<marker, detached, power, tainted>> /\ unit.st = "running"
      BY <2>11 DEF StopTimeout
    <3> QED
      BY <1>2, <2>11, <3>1, Mark_Ends DEF StopTimeout, Steady
  <2>12. CASE reboot
    BY <2>12 DEF reboot, MarkInv, Steady
  <2>13. CASE PowerCycle
    BY <2>0, <2>13, Mark_Ok DEF PowerCycle
  <2>14. CASE UNCHANGED vars
    BY <1>2, <2>14, Mark_Frame DEF vars, Steady
  <2> QED
    BY <1>2, <2>1, <2>2, <2>3, <2>4, <2>5, <2>6, <2>7, <2>8, <2>9, <2>10, <2>11, <2>12,
       <2>13, <2>14 DEF Next
<1>3. MarkInv => FailedRollbackSuppresses
  BY DEF MarkInv, GaveUp, Steady, FailedRollbackSuppresses
<1> QED
  BY <1>1, <1>2, <1>3, Invariance, PTL DEF Spec

=============================================================================
