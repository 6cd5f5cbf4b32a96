------------------------------ MODULE NetworkTxn ------------------------------
(***************************************************************************)
(* The confirm-or-rollback life cycle of the network configuration:        *)
(* NetworkService in engine/nasty-system/src/network.rs, with the two boot *)
(* phases of engine/nasty-engine/src/main.rs that recover from it.         *)
(*                                                                         *)
(* Three places hold a configuration: networking.json (`persisted'), the   *)
(* pending-revert snapshot (`revert') and NetworkManager (`live').  RPC    *)
(* handlers, one rollback timer per transaction and the boot sequence      *)
(* change them in steps that interleave, fail, are dropped with their      *)
(* connection, or are cut short by a crash.                                *)
(***************************************************************************)
EXTENDS Naturals, FiniteSets

CONSTANTS
    Configs,      \* network configurations, `Inherit' already resolved
    Malformed,    \* those the checks at the head of update() refuse
    Invalid,      \* those layered::validate refuses, inside persist_config
    VfConfigs,    \* those that create SR-IOV VFs and may need a second apply
    DefaultCfg,   \* NetworkConfig::default()
    Handlers,     \* RPC requests that can be in progress at once
    TxnIds,       \* results of new_txn_id; each is used at most once
    Requests,     \* the RPC methods clients call in this instance
    Faults,       \* the failures the environment may inject
    MaxCrashes,   \* bound on engine crashes and restarts
    NoFile, Garbage, Mixed, Nobody

Methods == {"update", "confirm", "nm_apply"}

\* write: a failing disk write; apply: NetworkManager unreachable; unlink: a
\* file that cannot be removed; drop: the request's connection dies and hyper
\* drops the handler; timeout: a boot phase overruns; garble: a file that the
\* next engine version cannot parse.
FaultKinds == {"write", "apply", "unlink", "drop", "timeout", "garble"}

ASSUME ConfigAssumption ==
    /\ Malformed \subseteq Configs
    /\ Invalid \subseteq Configs
    /\ VfConfigs \subseteq Configs
    /\ DefaultCfg \in Configs \ Invalid
    /\ NoFile \notin Configs
    /\ Garbage \notin Configs
    /\ NoFile # Garbage
    /\ Mixed \notin Configs

ASSUME ActorAssumption ==
    /\ Nobody \notin Handlers \cup TxnIds
    /\ Handlers \cap TxnIds = {}
    /\ Requests \subseteq Methods
    /\ Faults \subseteq FaultKinds
    /\ MaxCrashes \in Nat

VARIABLES
    persisted,    \* networking.json
    revert,       \* the pending-revert snapshot
    live,         \* what NetworkManager runs; Mixed while or after it is partial
    table,        \* NetworkService.transactions: absent, armed (cancel is Some)
                  \* or spent (cancel is None)
    lock,         \* holder of NetworkService.transaction_lifecycle
    timer,        \* program counter of the task of each transaction
    tprev,        \* the snapshot that task read
    rpc,          \* program counter and locals of each RPC handler
    phase,        \* boot phase, or "serving", or "down"
    bprev,        \* the snapshot restore_pending_revert read
    crashes,      \* crashes so far
    accepted,     \* history: the last configuration nobody may still revert
    confirmed,    \* history: transactions whose confirm() returned Ok
    reverted,     \* history: transactions whose rollback completed
    rolledBack    \* history: "yes" if the last change to settle was a rollback,
                  \* "strayed" if nm_apply has since applied a config it had
                  \* loaded before

disk == <<persisted, revert, accepted>>
timerVars == <<timer, tprev>>
bootVars == <<phase, bprev, crashes>>
history == <<confirmed, reverted, rolledBack>>
vars == <<disk, live, table, lock, timerVars, rpc, bootVars, history>>

Load_NoDefault(file) == file

\* load_config: a missing or unparseable file reads as the default.
Load(file) == IF file \in Configs THEN file ELSE DefaultCfg

UpdatePcs == {"update", "snapshot", "persist", "apply1", "applying1",
              "apply2", "applying2", "finish"}
ConfirmPcs == {"confirm", "unlink", "commit"}
NmApplyPcs == {"nm_load", "nm_apply", "nm_applying"}
HandlerPcs == {"idle"} \cup UpdatePcs \cup ConfirmPcs \cup NmApplyPcs

\* cfg is the configuration the handler applies, prev the one update() loaded
\* before it changed anything, armed whether the update has a rollback window,
\* txn the transaction a confirm names.
Locals == [pc : HandlerPcs, cfg : Configs, prev : Configs, armed : BOOLEAN,
           txn : TxnIds \cup {Nobody}]

\* No request in progress: a handler's locals die with it.
Idle == [pc |-> "idle", cfg |-> DefaultCfg, prev |-> DefaultCfg,
         armed |-> FALSE, txn |-> Nobody]

Call(h, pc, cfg, prev, armed, txn) ==
    [rpc EXCEPT ![h] = [pc |-> pc, cfg |-> cfg, prev |-> prev,
                        armed |-> armed, txn |-> txn]]
Goto(h, p) == [rpc EXCEPT ![h].pc = p]
Return(h) == [rpc EXCEPT ![h] = Idle]

RollbackPcs == {"read", "persist", "apply", "applying", "unlink", "forget"}
TimerPcs == {"unused", "sleeping", "cancelled", "elapsed", "done", "failed"}
              \cup RollbackPcs

RestorePcs == {"restore", "b_persist", "b_apply", "b_applying", "b_unlink"}
Phases == {"down", "reconcile", "reconciling", "serving"} \cup RestorePcs

TypeOK ==
    /\ persisted \in Configs \cup {NoFile, Garbage}
    /\ revert \in Configs \cup {NoFile, Garbage}
    /\ live \in Configs \cup {Mixed}
    /\ table \in [TxnIds -> {"absent", "armed", "spent"}]
    /\ lock \in Handlers \cup TxnIds \cup {Nobody}
    /\ timer \in [TxnIds -> TimerPcs]
    /\ tprev \in [TxnIds -> Configs]
    /\ rpc \in [Handlers -> Locals]
    /\ phase \in Phases
    /\ bprev \in Configs
    /\ crashes \in 0..MaxCrashes
    /\ accepted \in Configs
    /\ confirmed \subseteq TxnIds
    /\ reverted \subseteq TxnIds
    /\ rolledBack \in {"no", "yes", "strayed"}

\* A first start: nothing on disk, no transaction.
Init ==
    /\ persisted = NoFile
    /\ revert = NoFile
    /\ live = DefaultCfg
    /\ table = [t \in TxnIds |-> "absent"]
    /\ lock = Nobody
    /\ timer = [t \in TxnIds |-> "unused"]
    /\ tprev = [t \in TxnIds |-> DefaultCfg]
    /\ rpc = [h \in Handlers |-> Idle]
    /\ phase = "restore"
    /\ bprev = DefaultCfg
    /\ crashes = 0
    /\ accepted = DefaultCfg
    /\ confirmed = {}
    /\ reverted = {}
    /\ rolledBack = "no"

-----------------------------------------------------------------------------
(* update(): validate, snapshot, persist, apply, arm the rollback.           *)

Fresh == {t \in TxnIds : timer[t] = "unused"}

\* Bound: the updates of a behaviour that may still need a transaction id are
\* no more than the ids that are left.
RequestUpdate(h) ==
    /\ "update" \in Requests
    /\ phase = "serving"
    /\ rpc[h].pc = "idle"
    /\ Cardinality(Fresh) > Cardinality({g \in Handlers : rpc[g].pc \in UpdatePcs})
    /\ \E c \in Configs :
          rpc' = Call(h, "update", c, DefaultCfg, FALSE, Nobody)
    /\ UNCHANGED <<disk, live, table, lock, timerVars, bootVars, history>>

\* confirm_within_secs: Some(0) is "optout", Some(n) is "optin", None leaves
\* the choice to classify_risk, whose verdict depends on the caller's link.
Armed(window, risk) == window = "optin" \/ (window = "default" /\ risk)

Refused_IgnoresSnapshot(h) ==
    \/ \E t \in TxnIds : table[t] # "absent"
    \/ rpc[h].cfg \in Malformed

Refused_OnlyInput(h) == rpc[h].cfg \in Malformed

Refused(h) ==
    \/ \E t \in TxnIds : table[t] # "absent"
    \/ revert # NoFile
    \/ rpc[h].cfg \in Malformed

\* The checks under the lifecycle lock, and the read of the prior config.
UpdateBegin(h) ==
    /\ rpc[h].pc = "update"
    /\ lock = Nobody
    /\ IF Refused(h)
       THEN /\ rpc' = Return(h)
            /\ UNCHANGED <<lock, rolledBack>>
       ELSE \E window \in {"optout", "optin", "default"}, risk \in BOOLEAN :
              /\ lock' = h
              /\ rpc' = Call(h,
                             IF Armed(window, risk) THEN "snapshot" ELSE "persist",
                             rpc[h].cfg, Load(persisted), Armed(window, risk), Nobody)
              /\ rolledBack' = "no"
    /\ UNCHANGED <<disk, live, table, timerVars, bootVars, confirmed, reverted>>

\* The `?' operator: the handler returns Err and drops the lifecycle guard.
ReturnErr(h) ==
    /\ rpc' = Return(h)
    /\ lock' = Nobody

\* Write the prior config to the pending-revert path, atomically.
UpdateSnapshot(h) ==
    /\ rpc[h].pc = "snapshot"
    /\ \/ /\ revert' = rpc[h].prev
          /\ rpc' = Goto(h, "persist")
          /\ UNCHANGED lock
       \/ /\ "write" \in Faults
          /\ ReturnErr(h)
          /\ UNCHANGED revert
    /\ UNCHANGED <<persisted, accepted, live, table, timerVars, bootVars,
                   history>>

\* persist_config: the validator, then the atomic write of networking.json.
\* With no rollback window the new config is final once it is written.
UpdatePersist(h) ==
    /\ rpc[h].pc = "persist"
    /\ \/ /\ rpc[h].cfg \notin Invalid
          /\ persisted' = rpc[h].cfg
          /\ accepted' = IF rpc[h].armed THEN accepted ELSE rpc[h].cfg
          /\ rpc' = Goto(h, "apply1")
          /\ UNCHANGED lock
       \/ /\ rpc[h].cfg \in Invalid \/ "write" \in Faults
          /\ ReturnErr(h)
          /\ UNCHANGED <<persisted, accepted>>
    /\ UNCHANGED <<revert, live, table, timerVars, bootVars, history>>

\* apply_config talks to NetworkManager connection by connection.  It fails
\* as a whole only before the first change; while it runs, and if single
\* connections fail, the result is Mixed.
UpdateApplyStart(h, from, to) ==
    /\ rpc[h].pc = from
    /\ \/ /\ live' = Mixed
          /\ rpc' = Goto(h, to)
          /\ UNCHANGED lock
       \/ /\ "apply" \in Faults
          /\ ReturnErr(h)
          /\ UNCHANGED live
    /\ UNCHANGED <<disk, table, timerVars, bootVars, history>>

\* apply_with_vf_settle: one more apply when VF devices appeared meanwhile.
UpdateApplyEnd(h, from) ==
    /\ rpc[h].pc = from
    /\ live' \in {rpc[h].cfg, Mixed}
    /\ \/ rpc' = Goto(h, "finish")
       \/ /\ from = "applying1"
          /\ rpc[h].cfg \in VfConfigs
          /\ rpc' = Goto(h, "apply2")
    /\ UNCHANGED <<disk, table, lock, timerVars, bootVars, history>>

\* schedule_rollback: record the transaction and spawn its timer.
ScheduleRollback_NoTask(t) ==
    /\ t \in Fresh
    /\ table' = [table EXCEPT ![t] = "armed"]
    /\ timer' = [timer EXCEPT ![t] = "done"]

ScheduleRollback(t) ==
    /\ t \in Fresh
    /\ table' = [table EXCEPT ![t] = "armed"]
    /\ timer' = [timer EXCEPT ![t] = "sleeping"]

UpdateFinish(h) ==
    /\ rpc[h].pc = "finish"
    /\ IF rpc[h].armed
       THEN \E t \in TxnIds : ScheduleRollback(t)
       ELSE UNCHANGED <<table, timer>>
    /\ rpc' = Return(h)
    /\ lock' = Nobody
    /\ UNCHANGED <<disk, live, tprev, bootVars, history>>

-----------------------------------------------------------------------------
(* confirm(txn_id)                                                           *)

\* A client may name any transaction it was ever told of.
RequestConfirm(h) ==
    /\ "confirm" \in Requests
    /\ phase = "serving"
    /\ rpc[h].pc = "idle"
    /\ \E t \in TxnIds \ Fresh :
          rpc' = Call(h, "confirm", DefaultCfg, DefaultCfg, FALSE, t)
    /\ UNCHANGED <<disk, live, table, lock, timerVars, bootVars, history>>

ConfirmBegin(h) ==
    /\ rpc[h].pc = "confirm"
    /\ lock = Nobody
    /\ IF rpc[h].txn \in TxnIds /\ table[rpc[h].txn] = "armed"
       THEN /\ lock' = h
            /\ rpc' = Goto(h, "unlink")
       ELSE /\ rpc' = Return(h)
            /\ UNCHANGED lock
    /\ UNCHANGED <<disk, live, table, timerVars, bootVars, history>>

\* Removing the snapshot is the commit point: no restart can revert any more.
ConfirmUnlink(h) ==
    /\ rpc[h].pc = "unlink"
    /\ \/ /\ revert' = NoFile
          /\ accepted' = Load(persisted)
          /\ rpc' = Goto(h, "commit")
          /\ UNCHANGED lock
       \/ /\ "unlink" \in Faults
          /\ ReturnErr(h)
          /\ UNCHANGED <<revert, accepted>>
    /\ UNCHANGED <<persisted, live, table, timerVars, bootVars, history>>

\* Drop the table entry and signal the timer, which may have elapsed already.
ConfirmCommit(h) ==
    /\ rpc[h].pc = "commit"
    /\ table' = [table EXCEPT ![rpc[h].txn] = "absent"]
    /\ timer' = [timer EXCEPT ![rpc[h].txn] =
                    IF @ = "sleeping" THEN "cancelled" ELSE @]
    /\ confirmed' = confirmed \cup {rpc[h].txn}
    /\ rpc' = Return(h)
    /\ lock' = Nobody
    /\ UNCHANGED <<disk, live, tprev, bootVars, reverted, rolledBack>>

-----------------------------------------------------------------------------
(* nm_apply(): pushes the persisted config, without the lifecycle lock.      *)

RequestNmApply(h) ==
    /\ "nm_apply" \in Requests
    /\ phase = "serving"
    /\ rpc[h].pc = "idle"
    /\ rpc' = Goto(h, "nm_load")
    /\ UNCHANGED <<disk, live, table, lock, timerVars, bootVars, history>>

NmApplyLoad(h) ==
    /\ rpc[h].pc = "nm_load"
    /\ rpc' = Call(h, "nm_apply", Load(persisted), DefaultCfg, FALSE, Nobody)
    /\ UNCHANGED <<disk, live, table, lock, timerVars, bootVars, history>>

NmApplyStart(h) ==
    /\ rpc[h].pc = "nm_apply"
    /\ \/ /\ live' = Mixed
          /\ rpc' = Goto(h, "nm_applying")
       \/ /\ "apply" \in Faults
          /\ rpc' = Return(h)
          /\ UNCHANGED live
    /\ UNCHANGED <<disk, table, lock, timerVars, bootVars, history>>

NmApplyEnd(h) ==
    /\ rpc[h].pc = "nm_applying"
    /\ live' \in {rpc[h].cfg, Mixed}
    /\ rolledBack' = IF rpc[h].cfg # Load(persisted) THEN "strayed" ELSE rolledBack
    /\ rpc' = Return(h)
    /\ UNCHANGED <<disk, table, lock, timerVars, bootVars, confirmed, reverted>>

-----------------------------------------------------------------------------
(* A REST request runs inside its connection's task: when the connection     *)
(* dies, the handler is dropped at the await it has reached.                 *)

Dropped(h) ==
    /\ "drop" \in Faults
    /\ rpc[h].pc # "idle"
    /\ rpc' = Return(h)
    /\ lock' = IF lock = h THEN Nobody ELSE lock
    /\ UNCHANGED <<disk, live, table, timerVars, bootVars, history>>

-----------------------------------------------------------------------------
(* The rollback task of one transaction.                                     *)

\* select! may take the timer's arm even when the cancel signal is there too.
Elapse(t) ==
    /\ timer[t] \in {"sleeping", "cancelled"}
    /\ timer' = [timer EXCEPT ![t] = "elapsed"]
    /\ UNCHANGED <<disk, live, table, lock, tprev, rpc, bootVars, history>>

Cancelled(t) ==
    /\ timer[t] = "cancelled"
    /\ timer' = [timer EXCEPT ![t] = "done"]
    /\ UNCHANGED <<disk, live, table, lock, tprev, rpc, bootVars, history>>

RollbackBegin_Unconditional(t) ==
    /\ timer[t] = "elapsed"
    /\ lock = Nobody
    /\ timer' = [timer EXCEPT ![t] = "read"]
    /\ lock' = t
    /\ UNCHANGED <<disk, live, table, tprev, rpc, bootVars, history>>

RollbackBegin(t) ==
    /\ timer[t] = "elapsed"
    /\ lock = Nobody
    /\ IF table[t] = "absent"
       THEN /\ timer' = [timer EXCEPT ![t] = "done"]
            /\ UNCHANGED <<table, lock>>
       ELSE /\ table' = [table EXCEPT ![t] = "spent"]
            /\ timer' = [timer EXCEPT ![t] = "read"]
            /\ lock' = t
    /\ UNCHANGED <<disk, live, tprev, rpc, bootVars, history>>

RollbackErr_KeepsLock(t) ==
    /\ timer' = [timer EXCEPT ![t] = "failed"]
    /\ UNCHANGED lock

\* perform_rollback returned Err: the entry stays, nothing tries again.
RollbackErr(t) ==
    /\ timer' = [timer EXCEPT ![t] = "failed"]
    /\ lock' = Nobody

RollbackRead(t) ==
    /\ timer[t] = "read"
    /\ IF revert \in Configs
       THEN /\ tprev' = [tprev EXCEPT ![t] = revert]
            /\ timer' = [timer EXCEPT ![t] = "persist"]
            /\ UNCHANGED lock
       ELSE /\ RollbackErr(t)
            /\ UNCHANGED tprev
    /\ UNCHANGED <<disk, live, table, rpc, bootVars, history>>

RollbackPersist_Skipped(t) ==
    /\ timer[t] = "persist"
    /\ timer' = [timer EXCEPT ![t] = "apply"]
    /\ UNCHANGED <<disk, lock, live, table, tprev, rpc, bootVars, history>>

RollbackPersist(t) ==
    /\ timer[t] = "persist"
    /\ \/ /\ tprev[t] \notin Invalid
          /\ persisted' = tprev[t]
          /\ timer' = [timer EXCEPT ![t] = "apply"]
          /\ UNCHANGED lock
       \/ /\ tprev[t] \in Invalid \/ "write" \in Faults
          /\ RollbackErr(t)
          /\ UNCHANGED persisted
    /\ UNCHANGED <<revert, accepted, live, table, tprev, rpc, bootVars,
                   history>>

RollbackApplyStart_Skipped(t) ==
    /\ timer[t] = "apply"
    /\ timer' = [timer EXCEPT ![t] = "unlink"]
    /\ UNCHANGED <<disk, live, lock, table, tprev, rpc, bootVars, history>>

RollbackApplyStart(t) ==
    /\ timer[t] = "apply"
    /\ \/ /\ live' = Mixed
          /\ timer' = [timer EXCEPT ![t] = "applying"]
          /\ UNCHANGED lock
       \/ /\ "apply" \in Faults
          /\ RollbackErr(t)
          /\ UNCHANGED live
    /\ UNCHANGED <<disk, table, tprev, rpc, bootVars, history>>

RollbackApplyEnd(t) ==
    /\ timer[t] = "applying"
    /\ live' \in {tprev[t], Mixed}
    /\ timer' = [timer EXCEPT ![t] = "unlink"]
    /\ UNCHANGED <<disk, table, lock, tprev, rpc, bootVars, history>>

RollbackUnlink(t) ==
    /\ timer[t] = "unlink"
    /\ \/ /\ revert' = NoFile
          /\ timer' = [timer EXCEPT ![t] = "forget"]
          /\ UNCHANGED lock
       \/ /\ "unlink" \in Faults
          /\ RollbackErr(t)
          /\ UNCHANGED revert
    /\ UNCHANGED <<persisted, accepted, live, table, tprev, rpc, bootVars,
                   history>>

RollbackForget(t) ==
    /\ timer[t] = "forget"
    /\ table' = [table EXCEPT ![t] = "absent"]
    /\ timer' = [timer EXCEPT ![t] = "done"]
    /\ lock' = Nobody
    /\ reverted' = reverted \cup {t}
    /\ rolledBack' = IF rolledBack = "no" THEN "yes" ELSE rolledBack
    /\ UNCHANGED <<disk, live, tprev, rpc, bootVars, confirmed>>

-----------------------------------------------------------------------------
(* Crash, restart, restore_pending_revert and reconcile_orphans.  The server *)
(* listens only after the boot phases, so no handler runs beside them.       *)

\* The process dies with its tasks; the files and NetworkManager stay.  An
\* upgrade may bring a version that no longer parses one of the files.
Crash ==
    /\ phase # "down"
    /\ crashes < MaxCrashes
    /\ crashes' = crashes + 1
    /\ phase' = "down"
    /\ table' = [t \in TxnIds |-> "absent"]
    /\ lock' = Nobody
    /\ timer' = [t \in TxnIds |-> IF timer[t] = "unused" THEN "unused" ELSE "done"]
    /\ rpc' = [h \in Handlers |-> Idle]
    /\ rolledBack' = "no"
    /\ \/ UNCHANGED disk
       \/ /\ "garble" \in Faults
          /\ revert # NoFile
          /\ revert' = Garbage
          /\ UNCHANGED <<persisted, accepted>>
       \/ /\ "garble" \in Faults
          /\ persisted # NoFile
          /\ persisted' = Garbage
          /\ accepted' = IF revert = NoFile THEN DefaultCfg ELSE accepted
          /\ UNCHANGED revert
    /\ UNCHANGED <<live, tprev, bprev, confirmed, reverted>>

Start ==
    /\ phase = "down"
    /\ phase' = "restore"
    /\ UNCHANGED <<disk, live, table, lock, timerVars, rpc, bprev, crashes,
                   history>>

\* An unparseable snapshot is removed, which makes the persisted config final.
RestoreRead ==
    /\ phase = "restore"
    /\ \/ /\ revert = NoFile
          /\ phase' = "reconcile"
          /\ UNCHANGED <<revert, accepted, bprev>>
       \/ /\ revert = Garbage
          /\ \/ /\ revert' = NoFile
                /\ accepted' = Load(persisted)
             \/ /\ "unlink" \in Faults
                /\ UNCHANGED <<revert, accepted>>
          /\ phase' = "reconcile"
          /\ UNCHANGED bprev
       \/ /\ revert \in Configs
          /\ bprev' = revert
          /\ phase' = "b_persist"
          /\ UNCHANGED <<revert, accepted>>
    /\ UNCHANGED <<persisted, live, table, lock, timerVars, rpc, crashes,
                   history>>

RestorePersist ==
    /\ phase = "b_persist"
    /\ \/ /\ bprev \notin Invalid
          /\ persisted' = bprev
          /\ phase' = "b_apply"
       \/ /\ bprev \in Invalid \/ "write" \in Faults
          /\ phase' = "reconcile"
          /\ UNCHANGED persisted
    /\ UNCHANGED <<revert, accepted, live, table, lock, timerVars, rpc, bprev,
                   crashes, history>>

RestoreApplyStart ==
    /\ phase = "b_apply"
    /\ \/ /\ live' = Mixed
          /\ phase' = "b_applying"
       \/ /\ "apply" \in Faults
          /\ phase' = "reconcile"
          /\ UNCHANGED live
    /\ UNCHANGED <<disk, table, lock, timerVars, rpc, bprev, crashes, history>>

RestoreApplyEnd ==
    /\ phase = "b_applying"
    /\ live' \in {bprev, Mixed}
    /\ phase' = "b_unlink"
    /\ UNCHANGED <<disk, table, lock, timerVars, rpc, bprev, crashes, history>>

RestoreUnlink ==
    /\ phase = "b_unlink"
    /\ \/ revert' = NoFile
       \/ "unlink" \in Faults /\ UNCHANGED revert
    /\ phase' = "reconcile"
    /\ UNCHANGED <<persisted, accepted, live, table, lock, timerVars, rpc,
                   bprev, crashes, history>>

\* run_phase drops the phase's future at its deadline and boot goes on.
RestoreTimeout ==
    /\ "timeout" \in Faults
    /\ phase \in RestorePcs
    /\ phase' = "reconcile"
    /\ UNCHANGED <<disk, live, table, lock, timerVars, rpc, bprev, crashes,
                   history>>

ReconcileStart ==
    /\ phase = "reconcile"
    /\ \/ /\ live' = IF live = Load(persisted) THEN live ELSE Mixed
          /\ phase' = "reconciling"
       \/ /\ Faults \cap {"apply", "timeout"} # {}
          /\ phase' = "serving"
          /\ UNCHANGED live
    /\ UNCHANGED <<disk, table, lock, timerVars, rpc, bprev, crashes, history>>

ReconcileEnd ==
    /\ phase = "reconciling"
    /\ live' \in {Load(persisted), Mixed}
    /\ phase' = "serving"
    /\ UNCHANGED <<disk, table, lock, timerVars, rpc, bprev, crashes, history>>

-----------------------------------------------------------------------------
UpdateStep(h) ==
    \/ UpdateBegin(h) \/ UpdateSnapshot(h) \/ UpdatePersist(h)
    \/ UpdateApplyStart(h, "apply1", "applying1") \/ UpdateApplyEnd(h, "applying1")
    \/ UpdateApplyStart(h, "apply2", "applying2") \/ UpdateApplyEnd(h, "applying2")
    \/ UpdateFinish(h)

ConfirmStep(h) == ConfirmBegin(h) \/ ConfirmUnlink(h) \/ ConfirmCommit(h)

NmApplyStep(h) == NmApplyLoad(h) \/ NmApplyStart(h) \/ NmApplyEnd(h)

HandlerStep(h) == UpdateStep(h) \/ ConfirmStep(h) \/ NmApplyStep(h)

Request(h) == RequestUpdate(h) \/ RequestConfirm(h) \/ RequestNmApply(h)

RollbackStep(t) ==
    \/ RollbackBegin(t) \/ RollbackRead(t) \/ RollbackPersist(t)
    \/ RollbackApplyStart(t) \/ RollbackApplyEnd(t)
    \/ RollbackUnlink(t) \/ RollbackForget(t)

TimerStep(t) == Elapse(t) \/ Cancelled(t) \/ RollbackStep(t)

BootStep ==
    \/ Start \/ RestoreRead \/ RestorePersist \/ RestoreApplyStart
    \/ RestoreApplyEnd \/ RestoreUnlink \/ RestoreTimeout
    \/ ReconcileStart \/ ReconcileEnd

Next ==
    \/ \E h \in Handlers : Request(h) \/ HandlerStep(h) \/ Dropped(h)
    \/ \E t \in TxnIds : TimerStep(t)
    \/ Crash
    \/ BootStep

Spec == Init /\ [][Next]_vars

\* Every task that runs is polled again; the lifecycle mutex is tokio's, whose
\* queue is first come first served, so a waiter that keeps finding it free
\* gets it.  Clients, crashes and faults are not obliged to happen.
Fairness ==
    /\ \A h \in Handlers : SF_vars(HandlerStep(h))
    /\ \A t \in TxnIds : WF_vars(Elapse(t)) /\ SF_vars(RollbackStep(t))
    /\ WF_vars(BootStep)

LiveSpec == Spec /\ Fairness

-----------------------------------------------------------------------------
(* Properties                                                                *)

\* Crash safety of confirm-or-rollback.  Whatever fails or dies, the snapshot
\* of an unconfirmed change holds the last accepted configuration, and when
\* there is no snapshot the persisted configuration is the accepted one: a
\* restart never comes up with a change that nobody confirmed.
Recoverable ==
    /\ revert = NoFile => Load(persisted) = accepted
    /\ revert \in Configs => revert = accepted

\* A confirm that returned Ok is final: the transaction's timer, even one that
\* elapsed before the confirm got the lock, never starts a rollback.
ConfirmWins ==
    \A t \in confirmed : timer[t] \notin RollbackPcs /\ t \notin reverted

\* There is one snapshot path, so never two transactions; and a transaction
\* that can still be confirmed is not being rolled back.
SingleTransaction ==
    /\ \A t, u \in TxnIds : table[t] # "absent" /\ table[u] # "absent" => t = u
    /\ \A t \in TxnIds : table[t] = "armed" => timer[t] \notin RollbackPcs

\* The files refine the promise of confirm-or-revert: whatever handlers, timers,
\* crashes and boots do, and in whatever order, the configuration the box falls back
\* to changes only by an update without a window, by an admitted confirm, or because
\* a new version cannot read a file.
Promise == INSTANCE ConfirmOrRevert WITH
    None <- NoFile,
    safe <- IF revert \in Configs THEN revert ELSE Load(persisted),
    trial <- IF revert \in Configs THEN Load(persisted) ELSE NoFile,
    asked <- \E h \in Handlers : rpc[h].pc = "unlink",
    legible <- Garbage \notin {persisted, revert}

PromiseKept == Promise!Spec

\* After a completed rollback, and until the next update is admitted or the
\* engine restarts, NetworkManager does not run any other configuration than
\* the persisted one; only an nm_apply that takes no lifecycle lock and read
\* its configuration before the rollback wrote the file can undo it.
RolledBackLive == rolledBack = "yes" => live \in {Load(persisted), Mixed}

\* The snapshot of an unconfirmed change is never overwritten by another one.
SnapshotNeverOverwritten ==
    [][(revert \in Configs /\ revert' \in Configs) => revert' = revert]_vars

\* A change whose timer is armed is settled: confirmed, rolled back or lost in
\* a crash (the entry is gone), unless perform_rollback failed.
TransactionSettles ==
    \A t \in TxnIds :
        (table[t] = "armed") ~> (table[t] = "absent" \/ timer[t] = "failed")

\* No request waits for ever for the lifecycle lock or for a lock holder.
RequestsAnswered ==
    \A h \in Handlers : (rpc[h].pc # "idle") ~> (rpc[h].pc = "idle")
=============================================================================
