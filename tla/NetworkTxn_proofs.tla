--------------------------- MODULE NetworkTxn_proofs ---------------------------
(***************************************************************************)
(* The safety properties of NetworkTxn for every value of its constants:   *)
(* any number of handlers, transactions, configurations and crashes, and   *)
(* any set of faults.                                                      *)
(***************************************************************************)
EXTENDS NetworkTxn, TLAPS

\* Program points at which update() or confirm() holds the lifecycle lock.
UpdateHolding == UpdatePcs \ {"update"}
Holding == UpdateHolding \cup {"unlink", "commit"}

\* The lifecycle lock is held by whoever is between taking and dropping it.
LockInv ==
    /\ \A h \in Handlers : rpc[h].pc \in Holding => lock = h
    /\ \A t \in TxnIds : timer[t] \in RollbackPcs => lock = t

\* Nothing but the boot sequence runs before the server listens.
BootInv ==
    /\ phase # "serving" =>
          /\ \A h \in Handlers : rpc[h].pc = "idle"
          /\ \A t \in TxnIds : table[t] = "absent" /\ timer[t] \in {"unused", "done"}
    /\ phase \in RestorePcs \ {"restore"} => revert \in Configs /\ bprev = revert
    /\ phase \in RestorePcs \ {"restore", "b_persist"} => persisted = bprev

\* An admitted update found no transaction and no snapshot; with a rollback
\* window, its snapshot is on disk before networking.json changes.
UpdateInv ==
    \A h \in Handlers :
        /\ rpc[h].pc \in UpdateHolding => \A t \in TxnIds : table[t] = "absent"
        /\ rpc[h].pc = "snapshot" =>
              revert = NoFile /\ rpc[h].prev = Load(persisted) /\ rpc[h].armed
        /\ rpc[h].pc \in UpdateHolding \ {"snapshot"} =>
              (IF rpc[h].armed THEN revert \in Configs ELSE revert = NoFile)

\* A confirm past its checks still has its transaction.
ConfirmInv ==
    \A h \in Handlers : rpc[h].pc \in {"unlink", "commit"} =>
        rpc[h].txn \in TxnIds /\ table[rpc[h].txn] = "armed"

\* A rollback in progress works from the snapshot on disk.
RollbackInv ==
    \A t \in TxnIds :
        /\ timer[t] \in RollbackPcs => table[t] = "spent"
        /\ table[t] # "absent" => timer[t] # "unused"
        /\ timer[t] \in {"persist", "apply", "applying", "unlink"} =>
              revert \in Configs /\ tprev[t] = revert
        /\ timer[t] \in {"apply", "applying", "unlink"} => persisted = tprev[t]

OneTxn == \A t, u \in TxnIds : table[t] # "absent" /\ table[u] # "absent" => t = u

\* A transaction that was confirmed or rolled back is over.
HistoryInv ==
    \A t \in confirmed \cup reverted :
        /\ table[t] = "absent"
        /\ timer[t] \notin RollbackPcs \cup {"unused"}
        /\ ~ (t \in confirmed /\ t \in reverted)

Inv ==
    /\ LockInv
    /\ BootInv
    /\ UpdateInv
    /\ ConfirmInv
    /\ RollbackInv
    /\ OneTxn
    /\ HistoryInv
    /\ Recoverable

IInv == TypeOK /\ Inv

-----------------------------------------------------------------------------
USE ConfigAssumption, ActorAssumption
USE DEF disk, timerVars, bootVars, history
USE DEF UpdatePcs, ConfirmPcs, NmApplyPcs, HandlerPcs, RollbackPcs, TimerPcs,
        RestorePcs, Phases, UpdateHolding, Holding

\* A handler that moves on keeps its other locals.
LEMMA GotoFacts ==
  ASSUME TypeOK, NEW h \in Handlers, NEW p \in HandlerPcs
  PROVE  /\ Goto(h, p) \in [Handlers -> Locals]
         /\ Goto(h, p)[h].pc = p
         /\ Goto(h, p)[h].cfg = rpc[h].cfg
         /\ Goto(h, p)[h].prev = rpc[h].prev
         /\ Goto(h, p)[h].armed = rpc[h].armed
         /\ Goto(h, p)[h].txn = rpc[h].txn
         /\ \A g \in Handlers \ {h} : Goto(h, p)[g] = rpc[g]
  BY DEF TypeOK, Goto, Locals

\* A handler that returns is idle again.
LEMMA ReturnFacts ==
  ASSUME TypeOK, NEW h \in Handlers
  PROVE  /\ Return(h) \in [Handlers -> Locals]
         /\ Return(h)[h].pc = "idle"
         /\ \A g \in Handlers \ {h} : Return(h)[g] = rpc[g]
  BY DEF TypeOK, Return, Idle, Locals

\* A handler that takes its arguments has them in its locals.
LEMMA CallFacts ==
  ASSUME TypeOK, NEW h \in Handlers, NEW p \in HandlerPcs, NEW cfg \in Configs,
         NEW prev \in Configs, NEW armed \in BOOLEAN,
         NEW txn \in TxnIds \cup {Nobody}
  PROVE  /\ Call(h, p, cfg, prev, armed, txn) \in [Handlers -> Locals]
         /\ Call(h, p, cfg, prev, armed, txn)[h].pc = p
         /\ Call(h, p, cfg, prev, armed, txn)[h].cfg = cfg
         /\ Call(h, p, cfg, prev, armed, txn)[h].prev = prev
         /\ Call(h, p, cfg, prev, armed, txn)[h].armed = armed
         /\ Call(h, p, cfg, prev, armed, txn)[h].txn = txn
         /\ \A g \in Handlers \ {h} : Call(h, p, cfg, prev, armed, txn)[g] = rpc[g]
  BY DEF TypeOK, Call, Locals

\* The locals of a handler have their types.
LEMMA LocalsFacts ==
  ASSUME TypeOK, NEW h \in Handlers
  PROVE  /\ rpc[h].cfg \in Configs /\ rpc[h].prev \in Configs
         /\ rpc[h].armed \in BOOLEAN /\ rpc[h].txn \in TxnIds \cup {Nobody}
         /\ rpc[h].pc \in HandlerPcs
  BY DEF TypeOK, Locals

\* The locals of an idle handler.
LEMMA IdleFacts == Idle \in Locals /\ Idle.pc = "idle"
  BY DEF Idle, Locals

\* load_config always yields a configuration.
LEMMA LoadType == \A file : Load(file) \in Configs
  BY DEF Load

\* A request that arrives changes nothing but its own locals.
LEMMA RequestUpdate_IInv ==
  ASSUME NEW h \in Handlers, IInv, RequestUpdate(h)
  PROVE  IInv'
<1>1. PICK c \in Configs : rpc' = Call(h, "update", c, DefaultCfg, FALSE, Nobody)
  BY DEF RequestUpdate
<1>2. rpc' \in [Handlers -> Locals]
  BY <1>1, CallFacts DEF IInv
<1>3. TypeOK'
  BY <1>2 DEF IInv, TypeOK, RequestUpdate
<1>4. Inv'
  <2>1. (LockInv /\ BootInv)'
    BY DEF IInv, Inv, TypeOK, LockInv, BootInv, Recoverable, RequestUpdate,
      Call, Idle, Locals, Load, Fresh
  <2>2. (UpdateInv /\ ConfirmInv)'
    BY DEF IInv, Inv, TypeOK, LockInv, BootInv, UpdateInv, ConfirmInv,
      RollbackInv, RequestUpdate, Call, Idle, Locals, Load, Fresh
  <2>3. (RollbackInv /\ OneTxn)'
    BY DEF IInv, Inv, TypeOK, LockInv, BootInv, UpdateInv, ConfirmInv,
      RollbackInv, OneTxn, RequestUpdate, Call, Idle, Locals, Load, Fresh
  <2>4. HistoryInv'
    BY DEF IInv, Inv, TypeOK, LockInv, BootInv, UpdateInv, ConfirmInv,
      RollbackInv, HistoryInv, RequestUpdate, Call, Idle, Locals, Load, Fresh
  <2>5. Recoverable'
    BY DEF IInv, Inv, TypeOK, LockInv, BootInv, UpdateInv, ConfirmInv,
      RollbackInv, Recoverable, RequestUpdate, Call, Idle, Locals, Load, Fresh
  <2> QED
    BY <2>1, <2>2, <2>3, <2>4, <2>5 DEF Inv
<1> QED
  BY <1>3, <1>4 DEF IInv

\* update() is admitted only when no transaction and no snapshot exist; that
\* is what UpdateInv records of it.
LEMMA UpdateBegin_IInv ==
  ASSUME NEW h \in Handlers, IInv, UpdateBegin(h)
  PROVE  IInv'
<1>1. CASE Refused(h)
  <2>1. rpc' \in [Handlers -> Locals]
    BY <1>1, ReturnFacts DEF IInv, UpdateBegin
  <2>2. TypeOK'
    BY <1>1, <2>1 DEF IInv, TypeOK, UpdateBegin
  <2>3. Inv'
    <3>1. (LockInv /\ BootInv)'
      BY <1>1 DEF IInv, Inv, TypeOK, LockInv, BootInv, Recoverable, UpdateBegin,
        Return, Idle, Locals, Load
    <3>2. (UpdateInv /\ ConfirmInv)'
      BY <1>1 DEF IInv, Inv, TypeOK, LockInv, BootInv, UpdateInv, ConfirmInv,
        RollbackInv, UpdateBegin, Return, Idle, Locals, Load
    <3>3. (RollbackInv /\ OneTxn)'
      BY <1>1 DEF IInv, Inv, TypeOK, LockInv, BootInv, UpdateInv, ConfirmInv,
        RollbackInv, OneTxn, UpdateBegin, Return, Idle, Locals, Load
    <3>4. HistoryInv'
      BY <1>1 DEF IInv, Inv, TypeOK, LockInv, BootInv, UpdateInv, ConfirmInv,
        RollbackInv, HistoryInv, UpdateBegin, Return, Idle, Locals, Load
    <3>5. Recoverable'
      BY <1>1 DEF IInv, Inv, TypeOK, LockInv, BootInv, UpdateInv, ConfirmInv,
        RollbackInv, Recoverable, UpdateBegin, Return, Idle, Locals, Load
    <3> QED
      BY <3>1, <3>2, <3>3, <3>4, <3>5 DEF Inv
  <2> QED
    BY <2>2, <2>3 DEF IInv
<1>2. CASE ~ Refused(h)
  <2>1. PICK window \in {"optout", "optin", "default"}, risk \in BOOLEAN :
           /\ lock' = h
           /\ rpc' = Call(h,
                          IF Armed(window, risk) THEN "snapshot" ELSE "persist",
                          rpc[h].cfg, Load(persisted), Armed(window, risk), Nobody)
           /\ rolledBack' = "no"
    BY <1>2 DEF UpdateBegin
  <2> DEFINE pc == IF Armed(window, risk) THEN "snapshot" ELSE "persist"
             armed == Armed(window, risk)
             prev == Load(persisted)
             cfg == rpc[h].cfg
  <2>2. /\ armed \in BOOLEAN
        /\ pc = IF armed THEN "snapshot" ELSE "persist"
        /\ pc \in HandlerPcs /\ prev \in Configs /\ cfg \in Configs
    BY LoadType, LocalsFacts DEF Armed, IInv
  <2>. rpc' = Call(h, pc, cfg, prev, armed, Nobody)
    BY <2>1
  <2> HIDE DEF pc, armed, prev, cfg
  <2>3. /\ rpc' \in [Handlers -> Locals]
        /\ rpc'[h].pc = pc
        /\ rpc'[h].prev = prev
        /\ rpc'[h].armed = armed
        /\ \A g \in Handlers \ {h} : rpc'[g] = rpc[g]
    BY <2>2 DEF IInv, TypeOK, Call, Locals
  <2>4. TypeOK'
    BY <2>1, <2>3 DEF IInv, TypeOK, UpdateBegin
  <2>5. revert = NoFile /\ \A t \in TxnIds : table[t] = "absent"
    BY <1>2 DEF Refused
  <2>6. lock = Nobody /\ phase = "serving" /\ UNCHANGED <<disk, table, timerVars, bootVars>>
        /\ UNCHANGED <<confirmed, reverted>>
    BY DEF IInv, Inv, BootInv, UpdateBegin
  <2>7. LockInv' /\ BootInv'
    BY <2>1, <2>2, <2>3, <2>6 DEF IInv, Inv, TypeOK, LockInv, BootInv
  <2>8. UpdateInv'
    BY <2>1, <2>2, <2>3, <2>5, <2>6 DEF IInv, Inv, TypeOK, LockInv, UpdateInv,
           Load, prev
  <2>9. ConfirmInv'
    BY <2>1, <2>2, <2>3, <2>6 DEF IInv, Inv, TypeOK, LockInv, ConfirmInv
  <2>10. (RollbackInv /\ OneTxn /\ HistoryInv /\ Recoverable)'
    BY <2>6 DEF IInv, Inv, RollbackInv, OneTxn, HistoryInv, Recoverable, Load
  <2> QED
    BY <2>4, <2>7, <2>8, <2>9, <2>10 DEF IInv, Inv
<1> QED
  BY <1>1, <1>2

\* The snapshot written is the accepted configuration: nothing was pending when
\* `prev' was loaded and the lock has been held since.
LEMMA UpdateSnapshot_IInv ==
  ASSUME NEW h \in Handlers, IInv, UpdateSnapshot(h)
  PROVE  IInv'
<1>1. rpc' \in [Handlers -> Locals]
  BY GotoFacts, ReturnFacts DEF IInv, UpdateSnapshot, ReturnErr
<1>2. TypeOK'
  BY <1>1, LocalsFacts DEF IInv, TypeOK, UpdateSnapshot, ReturnErr
<1>3. Inv'
  <2>1. (LockInv /\ BootInv)'
    BY DEF IInv, Inv, TypeOK, LockInv, BootInv, Recoverable, UpdateSnapshot,
      ReturnErr, Goto, Return, Idle, Locals, Load, Fresh
  <2>2. (UpdateInv /\ ConfirmInv)'
    BY DEF IInv, Inv, TypeOK, LockInv, BootInv, UpdateInv, ConfirmInv,
      RollbackInv, UpdateSnapshot, ReturnErr, Goto, Return, Idle, Locals, Load,
      Fresh
  <2>3. (RollbackInv /\ OneTxn)'
    BY DEF IInv, Inv, TypeOK, LockInv, BootInv, UpdateInv, ConfirmInv,
      RollbackInv, OneTxn, UpdateSnapshot, ReturnErr, Goto, Return, Idle,
      Locals, Load, Fresh
  <2>4. HistoryInv'
    BY DEF IInv, Inv, TypeOK, LockInv, BootInv, UpdateInv, ConfirmInv,
      RollbackInv, HistoryInv, UpdateSnapshot, ReturnErr, Goto, Return, Idle,
      Locals, Load, Fresh
  <2>5. Recoverable'
    BY DEF IInv, Inv, TypeOK, LockInv, BootInv, UpdateInv, ConfirmInv,
      RollbackInv, Recoverable, UpdateSnapshot, ReturnErr, Goto, Return, Idle,
      Locals, Load, Fresh
  <2> QED
    BY <2>1, <2>2, <2>3, <2>4, <2>5 DEF Inv
<1> QED
  BY <1>2, <1>3 DEF IInv

\* networking.json changes only behind a snapshot, or for good.
LEMMA UpdatePersist_IInv ==
  ASSUME NEW h \in Handlers, IInv, UpdatePersist(h)
  PROVE  IInv'
<1>1. rpc' \in [Handlers -> Locals]
  BY GotoFacts, ReturnFacts DEF IInv, UpdatePersist, ReturnErr
<1>2. TypeOK'
  BY <1>1, LocalsFacts DEF IInv, TypeOK, UpdatePersist, ReturnErr
<1>3. Inv'
  <2>1. (LockInv /\ BootInv)'
    BY DEF IInv, Inv, TypeOK, LockInv, BootInv, Recoverable, UpdatePersist,
      ReturnErr, Goto, Return, Idle, Locals, Load, Fresh
  <2>2. (UpdateInv /\ ConfirmInv)'
    <3>1. UpdateInv'
      BY DEF IInv, Inv, TypeOK, LockInv, UpdateInv, UpdatePersist, ReturnErr,
        Goto, Return, Idle, Locals
    <3>2. ConfirmInv'
      BY DEF IInv, Inv, TypeOK, LockInv, ConfirmInv, UpdatePersist, ReturnErr,
        Goto, Return, Idle, Locals
    <3> QED
      BY <3>1, <3>2
  <2>3. (RollbackInv /\ OneTxn)'
    BY DEF IInv, Inv, TypeOK, LockInv, BootInv, UpdateInv, ConfirmInv,
      RollbackInv, OneTxn, UpdatePersist, ReturnErr, Goto, Return, Idle, Locals,
      Load, Fresh
  <2>4. HistoryInv'
    BY DEF IInv, Inv, TypeOK, LockInv, BootInv, UpdateInv, ConfirmInv,
      RollbackInv, HistoryInv, UpdatePersist, ReturnErr, Goto, Return, Idle,
      Locals, Load, Fresh
  <2>5. Recoverable'
    BY DEF IInv, Inv, TypeOK, LockInv, BootInv, UpdateInv, ConfirmInv,
      RollbackInv, Recoverable, UpdatePersist, ReturnErr, Goto, Return, Idle,
      Locals, Load, Fresh
  <2> QED
    BY <2>1, <2>2, <2>3, <2>4, <2>5 DEF Inv
<1> QED
  BY <1>2, <1>3 DEF IInv

\* The table was empty under the lock, so the new transaction is the only one.
LEMMA UpdateFinish_IInv ==
  ASSUME NEW h \in Handlers, IInv, UpdateFinish(h)
  PROVE  IInv'
<1>1. rpc' \in [Handlers -> Locals]
  BY ReturnFacts DEF IInv, UpdateFinish, ScheduleRollback
<1>2. TypeOK'
  BY <1>1 DEF IInv, TypeOK, UpdateFinish, ScheduleRollback
<1>3. Inv'
  <2>1. (LockInv /\ BootInv)'
    BY DEF IInv, Inv, TypeOK, LockInv, BootInv, Recoverable, UpdateFinish,
      ScheduleRollback, Return, Idle, Locals, Load, Fresh
  <2>2. (UpdateInv /\ ConfirmInv)'
    BY DEF IInv, Inv, TypeOK, LockInv, BootInv, UpdateInv, ConfirmInv,
      RollbackInv, UpdateFinish, ScheduleRollback, Return, Idle, Locals, Load,
      Fresh
  <2>3. (RollbackInv /\ OneTxn)'
    BY DEF IInv, Inv, TypeOK, LockInv, BootInv, UpdateInv, ConfirmInv,
      RollbackInv, OneTxn, UpdateFinish, ScheduleRollback, Return, Idle, Locals,
      Load, Fresh
  <2>4. HistoryInv'
    BY DEF IInv, Inv, TypeOK, LockInv, BootInv, UpdateInv, ConfirmInv,
      RollbackInv, HistoryInv, UpdateFinish, ScheduleRollback, Return, Idle,
      Locals, Load, Fresh
  <2>5. Recoverable'
    BY DEF IInv, Inv, TypeOK, LockInv, BootInv, UpdateInv, ConfirmInv,
      RollbackInv, Recoverable, UpdateFinish, ScheduleRollback, Return, Idle,
      Locals, Load, Fresh
  <2> QED
    BY <2>1, <2>2, <2>3, <2>4, <2>5 DEF Inv
<1> QED
  BY <1>2, <1>3 DEF IInv

\* As for RequestUpdate.
LEMMA RequestConfirm_IInv ==
  ASSUME NEW h \in Handlers, IInv, RequestConfirm(h)
  PROVE  IInv'
<1>1. PICK t \in TxnIds : rpc' = Call(h, "confirm", DefaultCfg, DefaultCfg, FALSE, t)
  BY DEF RequestConfirm
<1>2. rpc' \in [Handlers -> Locals]
  BY <1>1, CallFacts DEF IInv
<1>3. TypeOK'
  BY <1>2 DEF IInv, TypeOK, RequestConfirm
<1>4. Inv'
  <2>1. (LockInv /\ BootInv)'
    BY DEF IInv, Inv, TypeOK, LockInv, BootInv, Recoverable, RequestConfirm,
      Call, Idle, Locals, Load, Fresh
  <2>2. (UpdateInv /\ ConfirmInv)'
    BY DEF IInv, Inv, TypeOK, LockInv, BootInv, UpdateInv, ConfirmInv,
      RollbackInv, RequestConfirm, Call, Idle, Locals, Load, Fresh
  <2>3. (RollbackInv /\ OneTxn)'
    BY DEF IInv, Inv, TypeOK, LockInv, BootInv, UpdateInv, ConfirmInv,
      RollbackInv, OneTxn, RequestConfirm, Call, Idle, Locals, Load, Fresh
  <2>4. HistoryInv'
    BY DEF IInv, Inv, TypeOK, LockInv, BootInv, UpdateInv, ConfirmInv,
      RollbackInv, HistoryInv, RequestConfirm, Call, Idle, Locals, Load, Fresh
  <2>5. Recoverable'
    BY DEF IInv, Inv, TypeOK, LockInv, BootInv, UpdateInv, ConfirmInv,
      RollbackInv, Recoverable, RequestConfirm, Call, Idle, Locals, Load, Fresh
  <2> QED
    BY <2>1, <2>2, <2>3, <2>4, <2>5 DEF Inv
<1> QED
  BY <1>3, <1>4 DEF IInv

\* The transaction found armed stays so while the lock is held.
LEMMA ConfirmBegin_IInv ==
  ASSUME NEW h \in Handlers, IInv, ConfirmBegin(h)
  PROVE  IInv'
<1>1. rpc' \in [Handlers -> Locals]
  BY GotoFacts, ReturnFacts DEF IInv, ConfirmBegin
<1>2. TypeOK'
  BY <1>1 DEF IInv, TypeOK, ConfirmBegin
<1>3. Inv'
  <2>1. (LockInv /\ BootInv)'
    BY DEF IInv, Inv, TypeOK, LockInv, BootInv, Recoverable, ConfirmBegin, Goto,
      Return, Idle, Locals, Load, Fresh
  <2>2. (UpdateInv /\ ConfirmInv)'
    BY DEF IInv, Inv, TypeOK, LockInv, BootInv, UpdateInv, ConfirmInv,
      RollbackInv, ConfirmBegin, Goto, Return, Idle, Locals, Load, Fresh
  <2>3. (RollbackInv /\ OneTxn)'
    BY DEF IInv, Inv, TypeOK, LockInv, BootInv, UpdateInv, ConfirmInv,
      RollbackInv, OneTxn, ConfirmBegin, Goto, Return, Idle, Locals, Load, Fresh
  <2>4. HistoryInv'
    BY DEF IInv, Inv, TypeOK, LockInv, BootInv, UpdateInv, ConfirmInv,
      RollbackInv, HistoryInv, ConfirmBegin, Goto, Return, Idle, Locals, Load,
      Fresh
  <2>5. Recoverable'
    BY DEF IInv, Inv, TypeOK, LockInv, BootInv, UpdateInv, ConfirmInv,
      RollbackInv, Recoverable, ConfirmBegin, Goto, Return, Idle, Locals, Load,
      Fresh
  <2> QED
    BY <2>1, <2>2, <2>3, <2>4, <2>5 DEF Inv
<1> QED
  BY <1>2, <1>3 DEF IInv

\* Removing the snapshot makes the persisted configuration the accepted one.
LEMMA ConfirmUnlink_IInv ==
  ASSUME NEW h \in Handlers, IInv, ConfirmUnlink(h)
  PROVE  IInv'
<1>1. rpc' \in [Handlers -> Locals]
  BY GotoFacts, ReturnFacts DEF IInv, ConfirmUnlink, ReturnErr
<1>2. TypeOK'
  BY <1>1, LoadType DEF IInv, TypeOK, ConfirmUnlink, ReturnErr
<1>3. Inv'
  <2>1. (LockInv /\ BootInv)'
    BY DEF IInv, Inv, TypeOK, LockInv, BootInv, Recoverable, ConfirmUnlink,
      ReturnErr, Goto, Return, Idle, Locals, Load, Fresh
  <2>2. (UpdateInv /\ ConfirmInv)'
    BY DEF IInv, Inv, TypeOK, LockInv, BootInv, UpdateInv, ConfirmInv,
      RollbackInv, ConfirmUnlink, ReturnErr, Goto, Return, Idle, Locals, Load,
      Fresh
  <2>3. (RollbackInv /\ OneTxn)'
    BY DEF IInv, Inv, TypeOK, LockInv, BootInv, UpdateInv, ConfirmInv,
      RollbackInv, OneTxn, ConfirmUnlink, ReturnErr, Goto, Return, Idle, Locals,
      Load, Fresh
  <2>4. HistoryInv'
    BY DEF IInv, Inv, TypeOK, LockInv, BootInv, UpdateInv, ConfirmInv,
      RollbackInv, HistoryInv, ConfirmUnlink, ReturnErr, Goto, Return, Idle,
      Locals, Load, Fresh
  <2>5. Recoverable'
    BY DEF IInv, Inv, TypeOK, LockInv, BootInv, UpdateInv, ConfirmInv,
      RollbackInv, Recoverable, ConfirmUnlink, ReturnErr, Goto, Return, Idle,
      Locals, Load, Fresh
  <2> QED
    BY <2>1, <2>2, <2>3, <2>4, <2>5 DEF Inv
<1> QED
  BY <1>2, <1>3 DEF IInv

\* The lock excludes a rollback in progress, so the confirmed transaction's
\* timer has not started one, and without its table entry never will.
LEMMA ConfirmCommit_IInv ==
  ASSUME NEW h \in Handlers, IInv, ConfirmCommit(h)
  PROVE  IInv'
<1>1. rpc' \in [Handlers -> Locals]
  BY ReturnFacts DEF IInv, ConfirmCommit
<1>2. TypeOK'
  BY <1>1 DEF IInv, TypeOK, Inv, ConfirmInv, ConfirmCommit
<1>3. Inv'
  <2>1. (LockInv /\ BootInv)'
    BY DEF IInv, Inv, TypeOK, LockInv, BootInv, Recoverable, ConfirmCommit,
      Return, Idle, Locals, Load, Fresh
  <2>2. (UpdateInv /\ ConfirmInv)'
    BY DEF IInv, Inv, TypeOK, LockInv, BootInv, UpdateInv, ConfirmInv,
      RollbackInv, ConfirmCommit, Return, Idle, Locals, Load, Fresh
  <2>3. (RollbackInv /\ OneTxn)'
    BY DEF IInv, Inv, TypeOK, LockInv, BootInv, UpdateInv, ConfirmInv,
      RollbackInv, OneTxn, ConfirmCommit, Return, Idle, Locals, Load, Fresh
  <2>4. HistoryInv'
    BY DEF IInv, Inv, TypeOK, LockInv, BootInv, UpdateInv, ConfirmInv,
      RollbackInv, HistoryInv, ConfirmCommit, Return, Idle, Locals, Load, Fresh
  <2>5. Recoverable'
    BY DEF IInv, Inv, TypeOK, LockInv, BootInv, UpdateInv, ConfirmInv,
      RollbackInv, Recoverable, ConfirmCommit, Return, Idle, Locals, Load, Fresh
  <2> QED
    BY <2>1, <2>2, <2>3, <2>4, <2>5 DEF Inv
<1> QED
  BY <1>2, <1>3 DEF IInv

\* nm_apply() holds no lock and writes no file.
LEMMA RequestNmApply_IInv ==
  ASSUME NEW h \in Handlers, IInv, RequestNmApply(h)
  PROVE  IInv'
<1>1. rpc' \in [Handlers -> Locals]
  BY GotoFacts DEF IInv, RequestNmApply
<1>2. TypeOK'
  BY <1>1 DEF IInv, TypeOK, RequestNmApply
<1>3. Inv'
  <2>1. (LockInv /\ BootInv)'
    BY DEF IInv, Inv, TypeOK, LockInv, BootInv, Recoverable, RequestNmApply,
      Goto, Idle, Locals, Load, Fresh
  <2>2. (UpdateInv /\ ConfirmInv)'
    BY DEF IInv, Inv, TypeOK, LockInv, BootInv, UpdateInv, ConfirmInv,
      RollbackInv, RequestNmApply, Goto, Idle, Locals, Load, Fresh
  <2>3. (RollbackInv /\ OneTxn)'
    BY DEF IInv, Inv, TypeOK, LockInv, BootInv, UpdateInv, ConfirmInv,
      RollbackInv, OneTxn, RequestNmApply, Goto, Idle, Locals, Load, Fresh
  <2>4. HistoryInv'
    BY DEF IInv, Inv, TypeOK, LockInv, BootInv, UpdateInv, ConfirmInv,
      RollbackInv, HistoryInv, RequestNmApply, Goto, Idle, Locals, Load, Fresh
  <2>5. Recoverable'
    BY DEF IInv, Inv, TypeOK, LockInv, BootInv, UpdateInv, ConfirmInv,
      RollbackInv, Recoverable, RequestNmApply, Goto, Idle, Locals, Load, Fresh
  <2> QED
    BY <2>1, <2>2, <2>3, <2>4, <2>5 DEF Inv
<1> QED
  BY <1>2, <1>3 DEF IInv

\* nm_apply() reads networking.json into its locals.
LEMMA NmApplyLoad_IInv ==
  ASSUME NEW h \in Handlers, IInv, NmApplyLoad(h)
  PROVE  IInv'
<1>1. rpc' \in [Handlers -> Locals]
  BY CallFacts, LoadType DEF IInv, NmApplyLoad
<1>2. TypeOK'
  BY <1>1 DEF IInv, TypeOK, NmApplyLoad
<1>3. Inv'
  <2>1. (LockInv /\ BootInv)'
    BY DEF IInv, Inv, TypeOK, LockInv, BootInv, Recoverable, NmApplyLoad, Call,
      Idle, Locals, Load, Fresh
  <2>2. (UpdateInv /\ ConfirmInv)'
    BY DEF IInv, Inv, TypeOK, LockInv, BootInv, UpdateInv, ConfirmInv,
      RollbackInv, NmApplyLoad, Call, Idle, Locals, Load, Fresh
  <2>3. (RollbackInv /\ OneTxn)'
    BY DEF IInv, Inv, TypeOK, LockInv, BootInv, UpdateInv, ConfirmInv,
      RollbackInv, OneTxn, NmApplyLoad, Call, Idle, Locals, Load, Fresh
  <2>4. HistoryInv'
    BY DEF IInv, Inv, TypeOK, LockInv, BootInv, UpdateInv, ConfirmInv,
      RollbackInv, HistoryInv, NmApplyLoad, Call, Idle, Locals, Load, Fresh
  <2>5. Recoverable'
    BY DEF IInv, Inv, TypeOK, LockInv, BootInv, UpdateInv, ConfirmInv,
      RollbackInv, Recoverable, NmApplyLoad, Call, Idle, Locals, Load, Fresh
  <2> QED
    BY <2>1, <2>2, <2>3, <2>4, <2>5 DEF Inv
<1> QED
  BY <1>2, <1>3 DEF IInv

\* nm_apply() changes NetworkManager only.
LEMMA NmApplyStart_IInv ==
  ASSUME NEW h \in Handlers, IInv, NmApplyStart(h)
  PROVE  IInv'
<1>1. rpc' \in [Handlers -> Locals]
  BY GotoFacts, ReturnFacts DEF IInv, NmApplyStart
<1>2. TypeOK'
  BY <1>1 DEF IInv, TypeOK, NmApplyStart
<1>3. Inv'
  <2>1. (LockInv /\ BootInv)'
    BY DEF IInv, Inv, TypeOK, LockInv, BootInv, Recoverable, NmApplyStart, Goto,
      Return, Idle, Locals, Load, Fresh
  <2>2. (UpdateInv /\ ConfirmInv)'
    BY DEF IInv, Inv, TypeOK, LockInv, BootInv, UpdateInv, ConfirmInv,
      RollbackInv, NmApplyStart, Goto, Return, Idle, Locals, Load, Fresh
  <2>3. (RollbackInv /\ OneTxn)'
    BY DEF IInv, Inv, TypeOK, LockInv, BootInv, UpdateInv, ConfirmInv,
      RollbackInv, OneTxn, NmApplyStart, Goto, Return, Idle, Locals, Load, Fresh
  <2>4. HistoryInv'
    BY DEF IInv, Inv, TypeOK, LockInv, BootInv, UpdateInv, ConfirmInv,
      RollbackInv, HistoryInv, NmApplyStart, Goto, Return, Idle, Locals, Load,
      Fresh
  <2>5. Recoverable'
    BY DEF IInv, Inv, TypeOK, LockInv, BootInv, UpdateInv, ConfirmInv,
      RollbackInv, Recoverable, NmApplyStart, Goto, Return, Idle, Locals, Load,
      Fresh
  <2> QED
    BY <2>1, <2>2, <2>3, <2>4, <2>5 DEF Inv
<1> QED
  BY <1>2, <1>3 DEF IInv

\* nm_apply() changes NetworkManager only.
LEMMA NmApplyEnd_IInv ==
  ASSUME NEW h \in Handlers, IInv, NmApplyEnd(h)
  PROVE  IInv'
<1>1. rpc' \in [Handlers -> Locals]
  BY ReturnFacts DEF IInv, NmApplyEnd
<1>2. TypeOK'
  BY <1>1, LocalsFacts DEF IInv, TypeOK, NmApplyEnd
<1>3. Inv'
  <2>1. (LockInv /\ BootInv)'
    BY DEF IInv, Inv, TypeOK, LockInv, BootInv, Recoverable, NmApplyEnd, Return,
      Idle, Locals, Load, Fresh
  <2>2. (UpdateInv /\ ConfirmInv)'
    BY DEF IInv, Inv, TypeOK, LockInv, BootInv, UpdateInv, ConfirmInv,
      RollbackInv, NmApplyEnd, Return, Idle, Locals, Load, Fresh
  <2>3. (RollbackInv /\ OneTxn)'
    BY DEF IInv, Inv, TypeOK, LockInv, BootInv, UpdateInv, ConfirmInv,
      RollbackInv, OneTxn, NmApplyEnd, Return, Idle, Locals, Load, Fresh
  <2>4. HistoryInv'
    BY DEF IInv, Inv, TypeOK, LockInv, BootInv, UpdateInv, ConfirmInv,
      RollbackInv, HistoryInv, NmApplyEnd, Return, Idle, Locals, Load, Fresh
  <2>5. Recoverable'
    BY DEF IInv, Inv, TypeOK, LockInv, BootInv, UpdateInv, ConfirmInv,
      RollbackInv, Recoverable, NmApplyEnd, Return, Idle, Locals, Load, Fresh
  <2> QED
    BY <2>1, <2>2, <2>3, <2>4, <2>5 DEF Inv
<1> QED
  BY <1>2, <1>3 DEF IInv

\* A dropped handler releases the lock and leaves the files as they are.
LEMMA Dropped_IInv ==
  ASSUME NEW h \in Handlers, IInv, Dropped(h)
  PROVE  IInv'
<1>1. rpc' \in [Handlers -> Locals]
  BY ReturnFacts DEF IInv, Dropped
<1>2. TypeOK'
  BY <1>1 DEF IInv, TypeOK, Dropped
<1>3. Inv'
  <2>1. (LockInv /\ BootInv)'
    BY DEF IInv, Inv, TypeOK, LockInv, BootInv, Recoverable, Dropped, Return,
      Idle, Locals, Load, Fresh
  <2>2. (UpdateInv /\ ConfirmInv)'
    BY DEF IInv, Inv, TypeOK, LockInv, BootInv, UpdateInv, ConfirmInv,
      RollbackInv, Dropped, Return, Idle, Locals, Load, Fresh
  <2>3. (RollbackInv /\ OneTxn)'
    BY DEF IInv, Inv, TypeOK, LockInv, BootInv, UpdateInv, ConfirmInv,
      RollbackInv, OneTxn, Dropped, Return, Idle, Locals, Load, Fresh
  <2>4. HistoryInv'
    BY DEF IInv, Inv, TypeOK, LockInv, BootInv, UpdateInv, ConfirmInv,
      RollbackInv, HistoryInv, Dropped, Return, Idle, Locals, Load, Fresh
  <2>5. Recoverable'
    BY DEF IInv, Inv, TypeOK, LockInv, BootInv, UpdateInv, ConfirmInv,
      RollbackInv, Recoverable, Dropped, Return, Idle, Locals, Load, Fresh
  <2> QED
    BY <2>1, <2>2, <2>3, <2>4, <2>5 DEF Inv
<1> QED
  BY <1>2, <1>3 DEF IInv

\* Applying changes NetworkManager only.
LEMMA UpdateApplyStart_IInv ==
  ASSUME NEW h \in Handlers, NEW from \in {"apply1", "apply2"},
         NEW to \in {"applying1", "applying2"}, IInv, UpdateApplyStart(h, from, to)
  PROVE  IInv'
<1>1. rpc' \in [Handlers -> Locals]
  BY GotoFacts, ReturnFacts DEF IInv, UpdateApplyStart, ReturnErr
<1>2. TypeOK'
  BY <1>1 DEF IInv, TypeOK, UpdateApplyStart, ReturnErr
<1>3. Inv'
  <2>1. (LockInv /\ BootInv)'
    BY DEF IInv, Inv, TypeOK, LockInv, BootInv, Recoverable, UpdateApplyStart,
      ReturnErr, Goto, Return, Idle, Locals, Load, Fresh
  <2>2. (UpdateInv /\ ConfirmInv)'
    BY DEF IInv, Inv, TypeOK, LockInv, BootInv, UpdateInv, ConfirmInv,
      RollbackInv, UpdateApplyStart, ReturnErr, Goto, Return, Idle, Locals,
      Load, Fresh
  <2>3. (RollbackInv /\ OneTxn)'
    BY DEF IInv, Inv, TypeOK, LockInv, BootInv, UpdateInv, ConfirmInv,
      RollbackInv, OneTxn, UpdateApplyStart, ReturnErr, Goto, Return, Idle,
      Locals, Load, Fresh
  <2>4. HistoryInv'
    BY DEF IInv, Inv, TypeOK, LockInv, BootInv, UpdateInv, ConfirmInv,
      RollbackInv, HistoryInv, UpdateApplyStart, ReturnErr, Goto, Return, Idle,
      Locals, Load, Fresh
  <2>5. Recoverable'
    BY DEF IInv, Inv, TypeOK, LockInv, BootInv, UpdateInv, ConfirmInv,
      RollbackInv, Recoverable, UpdateApplyStart, ReturnErr, Goto, Return, Idle,
      Locals, Load, Fresh
  <2> QED
    BY <2>1, <2>2, <2>3, <2>4, <2>5 DEF Inv
<1> QED
  BY <1>2, <1>3 DEF IInv

\* Applying changes NetworkManager only.
LEMMA UpdateApplyEnd_IInv ==
  ASSUME NEW h \in Handlers, NEW from \in {"applying1", "applying2"}, IInv, UpdateApplyEnd(h, from)
  PROVE  IInv'
<1>1. rpc' \in [Handlers -> Locals]
  BY GotoFacts DEF IInv, UpdateApplyEnd
<1>2. TypeOK'
  BY <1>1, LocalsFacts DEF IInv, TypeOK, UpdateApplyEnd
<1>3. Inv'
  <2>1. (LockInv /\ BootInv)'
    BY DEF IInv, Inv, TypeOK, LockInv, BootInv, Recoverable, UpdateApplyEnd,
      Goto, Idle, Locals, Load, Fresh
  <2>2. (UpdateInv /\ ConfirmInv)'
    BY DEF IInv, Inv, TypeOK, LockInv, BootInv, UpdateInv, ConfirmInv,
      RollbackInv, UpdateApplyEnd, Goto, Idle, Locals, Load, Fresh
  <2>3. (RollbackInv /\ OneTxn)'
    BY DEF IInv, Inv, TypeOK, LockInv, BootInv, UpdateInv, ConfirmInv,
      RollbackInv, OneTxn, UpdateApplyEnd, Goto, Idle, Locals, Load, Fresh
  <2>4. HistoryInv'
    BY DEF IInv, Inv, TypeOK, LockInv, BootInv, UpdateInv, ConfirmInv,
      RollbackInv, HistoryInv, UpdateApplyEnd, Goto, Idle, Locals, Load, Fresh
  <2>5. Recoverable'
    BY DEF IInv, Inv, TypeOK, LockInv, BootInv, UpdateInv, ConfirmInv,
      RollbackInv, Recoverable, UpdateApplyEnd, Goto, Idle, Locals, Load, Fresh
  <2> QED
    BY <2>1, <2>2, <2>3, <2>4, <2>5 DEF Inv
<1> QED
  BY <1>2, <1>3 DEF IInv

\* A timer that elapses touches nothing else.
LEMMA Elapse_IInv ==
  ASSUME NEW t \in TxnIds, IInv, Elapse(t)
  PROVE  IInv'
<1>1. TypeOK'
  BY DEF IInv, TypeOK, Elapse
<1>2. Inv'
  <2>1. (LockInv /\ BootInv)'
    BY DEF IInv, Inv, TypeOK, LockInv, BootInv, Recoverable, Elapse, Load, Fresh
  <2>2. (UpdateInv /\ ConfirmInv)'
    BY DEF IInv, Inv, TypeOK, LockInv, BootInv, UpdateInv, ConfirmInv,
      RollbackInv, Elapse, Load, Fresh
  <2>3. (RollbackInv /\ OneTxn)'
    BY DEF IInv, Inv, TypeOK, LockInv, BootInv, UpdateInv, ConfirmInv,
      RollbackInv, OneTxn, Elapse, Load, Fresh
  <2>4. HistoryInv'
    BY DEF IInv, Inv, TypeOK, LockInv, BootInv, UpdateInv, ConfirmInv,
      RollbackInv, HistoryInv, Elapse, Load, Fresh
  <2>5. Recoverable'
    BY DEF IInv, Inv, TypeOK, LockInv, BootInv, UpdateInv, ConfirmInv,
      RollbackInv, Recoverable, Elapse, Load, Fresh
  <2> QED
    BY <2>1, <2>2, <2>3, <2>4, <2>5 DEF Inv
<1> QED
  BY <1>1, <1>2 DEF IInv

\* A timer that sees the cancel signal ends.
LEMMA Cancelled_IInv ==
  ASSUME NEW t \in TxnIds, IInv, Cancelled(t)
  PROVE  IInv'
<1>1. TypeOK'
  BY DEF IInv, TypeOK, Cancelled
<1>2. Inv'
  <2>1. (LockInv /\ BootInv)'
    BY DEF IInv, Inv, TypeOK, LockInv, BootInv, Recoverable, Cancelled, Load,
      Fresh
  <2>2. (UpdateInv /\ ConfirmInv)'
    BY DEF IInv, Inv, TypeOK, LockInv, BootInv, UpdateInv, ConfirmInv,
      RollbackInv, Cancelled, Load, Fresh
  <2>3. (RollbackInv /\ OneTxn)'
    BY DEF IInv, Inv, TypeOK, LockInv, BootInv, UpdateInv, ConfirmInv,
      RollbackInv, OneTxn, Cancelled, Load, Fresh
  <2>4. HistoryInv'
    BY DEF IInv, Inv, TypeOK, LockInv, BootInv, UpdateInv, ConfirmInv,
      RollbackInv, HistoryInv, Cancelled, Load, Fresh
  <2>5. Recoverable'
    BY DEF IInv, Inv, TypeOK, LockInv, BootInv, UpdateInv, ConfirmInv,
      RollbackInv, Recoverable, Cancelled, Load, Fresh
  <2> QED
    BY <2>1, <2>2, <2>3, <2>4, <2>5 DEF Inv
<1> QED
  BY <1>1, <1>2 DEF IInv

\* A rollback starts only for a transaction still in the table, so not for a
\* confirmed one.
LEMMA RollbackBegin_IInv ==
  ASSUME NEW t \in TxnIds, IInv, RollbackBegin(t)
  PROVE  IInv'
<1>1. TypeOK'
  BY DEF IInv, TypeOK, RollbackBegin
<1>2. Inv'
  <2>1. (LockInv /\ BootInv)'
    BY DEF IInv, Inv, TypeOK, LockInv, BootInv, Recoverable, RollbackBegin,
      Load, Fresh
  <2>2. (UpdateInv /\ ConfirmInv)'
    BY DEF IInv, Inv, TypeOK, LockInv, BootInv, UpdateInv, ConfirmInv,
      RollbackInv, RollbackBegin, Load, Fresh
  <2>3. (RollbackInv /\ OneTxn)'
    BY DEF IInv, Inv, TypeOK, LockInv, BootInv, UpdateInv, ConfirmInv,
      RollbackInv, OneTxn, RollbackBegin, Load, Fresh
  <2>4. HistoryInv'
    BY DEF IInv, Inv, TypeOK, LockInv, BootInv, UpdateInv, ConfirmInv,
      RollbackInv, HistoryInv, RollbackBegin, Load, Fresh
  <2>5. Recoverable'
    BY DEF IInv, Inv, TypeOK, LockInv, BootInv, UpdateInv, ConfirmInv,
      RollbackInv, Recoverable, RollbackBegin, Load, Fresh
  <2> QED
    BY <2>1, <2>2, <2>3, <2>4, <2>5 DEF Inv
<1> QED
  BY <1>1, <1>2 DEF IInv

\* The rollback reads the snapshot that is on disk.
LEMMA RollbackRead_IInv ==
  ASSUME NEW t \in TxnIds, IInv, RollbackRead(t)
  PROVE  IInv'
<1>1. TypeOK'
  BY DEF IInv, TypeOK, RollbackRead, RollbackErr
<1>2. Inv'
  <2>1. (LockInv /\ BootInv)'
    BY DEF IInv, Inv, TypeOK, LockInv, BootInv, Recoverable, RollbackRead,
      RollbackErr, Load, Fresh
  <2>2. (UpdateInv /\ ConfirmInv)'
    BY DEF IInv, Inv, TypeOK, LockInv, BootInv, UpdateInv, ConfirmInv,
      RollbackInv, RollbackRead, RollbackErr, Load, Fresh
  <2>3. (RollbackInv /\ OneTxn)'
    BY DEF IInv, Inv, TypeOK, LockInv, BootInv, UpdateInv, ConfirmInv,
      RollbackInv, OneTxn, RollbackRead, RollbackErr, Load, Fresh
  <2>4. HistoryInv'
    BY DEF IInv, Inv, TypeOK, LockInv, BootInv, UpdateInv, ConfirmInv,
      RollbackInv, HistoryInv, RollbackRead, RollbackErr, Load, Fresh
  <2>5. Recoverable'
    BY DEF IInv, Inv, TypeOK, LockInv, BootInv, UpdateInv, ConfirmInv,
      RollbackInv, Recoverable, RollbackRead, RollbackErr, Load, Fresh
  <2> QED
    BY <2>1, <2>2, <2>3, <2>4, <2>5 DEF Inv
<1> QED
  BY <1>1, <1>2 DEF IInv

\* The rollback writes the accepted configuration to networking.json.
LEMMA RollbackPersist_IInv ==
  ASSUME NEW t \in TxnIds, IInv, RollbackPersist(t)
  PROVE  IInv'
<1>1. TypeOK'
  BY DEF IInv, TypeOK, RollbackPersist, RollbackErr
<1>2. Inv'
  <2>1. (LockInv /\ BootInv)'
    BY DEF IInv, Inv, TypeOK, LockInv, BootInv, Recoverable, RollbackPersist,
      RollbackErr, Load, Fresh
  <2>2. (UpdateInv /\ ConfirmInv)'
    BY DEF IInv, Inv, TypeOK, LockInv, BootInv, UpdateInv, ConfirmInv,
      RollbackInv, RollbackPersist, RollbackErr, Load, Fresh
  <2>3. (RollbackInv /\ OneTxn)'
    BY DEF IInv, Inv, TypeOK, LockInv, BootInv, UpdateInv, ConfirmInv,
      RollbackInv, OneTxn, RollbackPersist, RollbackErr, Load, Fresh
  <2>4. HistoryInv'
    BY DEF IInv, Inv, TypeOK, LockInv, BootInv, UpdateInv, ConfirmInv,
      RollbackInv, HistoryInv, RollbackPersist, RollbackErr, Load, Fresh
  <2>5. Recoverable'
    BY DEF IInv, Inv, TypeOK, LockInv, BootInv, UpdateInv, ConfirmInv,
      RollbackInv, Recoverable, RollbackPersist, RollbackErr, Load, Fresh
  <2> QED
    BY <2>1, <2>2, <2>3, <2>4, <2>5 DEF Inv
<1> QED
  BY <1>1, <1>2 DEF IInv

\* Applying changes NetworkManager only.
LEMMA RollbackApplyStart_IInv ==
  ASSUME NEW t \in TxnIds, IInv, RollbackApplyStart(t)
  PROVE  IInv'
<1>1. TypeOK'
  BY DEF IInv, TypeOK, RollbackApplyStart, RollbackErr
<1>2. Inv'
  <2>1. (LockInv /\ BootInv)'
    BY DEF IInv, Inv, TypeOK, LockInv, BootInv, Recoverable, RollbackApplyStart,
      RollbackErr, Load, Fresh
  <2>2. (UpdateInv /\ ConfirmInv)'
    BY DEF IInv, Inv, TypeOK, LockInv, BootInv, UpdateInv, ConfirmInv,
      RollbackInv, RollbackApplyStart, RollbackErr, Load, Fresh
  <2>3. (RollbackInv /\ OneTxn)'
    BY DEF IInv, Inv, TypeOK, LockInv, BootInv, UpdateInv, ConfirmInv,
      RollbackInv, OneTxn, RollbackApplyStart, RollbackErr, Load, Fresh
  <2>4. HistoryInv'
    BY DEF IInv, Inv, TypeOK, LockInv, BootInv, UpdateInv, ConfirmInv,
      RollbackInv, HistoryInv, RollbackApplyStart, RollbackErr, Load, Fresh
  <2>5. Recoverable'
    BY DEF IInv, Inv, TypeOK, LockInv, BootInv, UpdateInv, ConfirmInv,
      RollbackInv, Recoverable, RollbackApplyStart, RollbackErr, Load, Fresh
  <2> QED
    BY <2>1, <2>2, <2>3, <2>4, <2>5 DEF Inv
<1> QED
  BY <1>1, <1>2 DEF IInv

\* Applying changes NetworkManager only.
LEMMA RollbackApplyEnd_IInv ==
  ASSUME NEW t \in TxnIds, IInv, RollbackApplyEnd(t)
  PROVE  IInv'
<1>1. TypeOK'
  BY DEF IInv, TypeOK, RollbackApplyEnd
<1>2. Inv'
  <2>1. (LockInv /\ BootInv)'
    BY DEF IInv, Inv, TypeOK, LockInv, BootInv, Recoverable, RollbackApplyEnd,
      Load, Fresh
  <2>2. (UpdateInv /\ ConfirmInv)'
    BY DEF IInv, Inv, TypeOK, LockInv, BootInv, UpdateInv, ConfirmInv,
      RollbackInv, RollbackApplyEnd, Load, Fresh
  <2>3. (RollbackInv /\ OneTxn)'
    BY DEF IInv, Inv, TypeOK, LockInv, BootInv, UpdateInv, ConfirmInv,
      RollbackInv, OneTxn, RollbackApplyEnd, Load, Fresh
  <2>4. HistoryInv'
    BY DEF IInv, Inv, TypeOK, LockInv, BootInv, UpdateInv, ConfirmInv,
      RollbackInv, HistoryInv, RollbackApplyEnd, Load, Fresh
  <2>5. Recoverable'
    BY DEF IInv, Inv, TypeOK, LockInv, BootInv, UpdateInv, ConfirmInv,
      RollbackInv, Recoverable, RollbackApplyEnd, Load, Fresh
  <2> QED
    BY <2>1, <2>2, <2>3, <2>4, <2>5 DEF Inv
<1> QED
  BY <1>1, <1>2 DEF IInv

\* The snapshot goes only after networking.json holds its content.
LEMMA RollbackUnlink_IInv ==
  ASSUME NEW t \in TxnIds, IInv, RollbackUnlink(t)
  PROVE  IInv'
<1>1. TypeOK'
  BY DEF IInv, TypeOK, RollbackUnlink, RollbackErr
<1>2. Inv'
  <2>1. (LockInv /\ BootInv)'
    BY DEF IInv, Inv, TypeOK, LockInv, BootInv, Recoverable, RollbackUnlink,
      RollbackErr, Load, Fresh
  <2>2. (UpdateInv /\ ConfirmInv)'
    BY DEF IInv, Inv, TypeOK, LockInv, BootInv, UpdateInv, ConfirmInv,
      RollbackInv, RollbackUnlink, RollbackErr, Load, Fresh
  <2>3. (RollbackInv /\ OneTxn)'
    BY DEF IInv, Inv, TypeOK, LockInv, BootInv, UpdateInv, ConfirmInv,
      RollbackInv, OneTxn, RollbackUnlink, RollbackErr, Load, Fresh
  <2>4. HistoryInv'
    BY DEF IInv, Inv, TypeOK, LockInv, BootInv, UpdateInv, ConfirmInv,
      RollbackInv, HistoryInv, RollbackUnlink, RollbackErr, Load, Fresh
  <2>5. Recoverable'
    BY DEF IInv, Inv, TypeOK, LockInv, BootInv, UpdateInv, ConfirmInv,
      RollbackInv, Recoverable, RollbackUnlink, RollbackErr, Load, Fresh
  <2> QED
    BY <2>1, <2>2, <2>3, <2>4, <2>5 DEF Inv
<1> QED
  BY <1>1, <1>2 DEF IInv

\* A rollback that completed ends its transaction.
LEMMA RollbackForget_IInv ==
  ASSUME NEW t \in TxnIds, IInv, RollbackForget(t)
  PROVE  IInv'
<1>1. TypeOK'
  BY DEF IInv, TypeOK, RollbackForget
<1>2. Inv'
  <2>1. (LockInv /\ BootInv)'
    BY DEF IInv, Inv, TypeOK, LockInv, BootInv, Recoverable, RollbackForget,
      Load, Fresh
  <2>2. (UpdateInv /\ ConfirmInv)'
    BY DEF IInv, Inv, TypeOK, LockInv, BootInv, UpdateInv, ConfirmInv,
      RollbackInv, RollbackForget, Load, Fresh
  <2>3. (RollbackInv /\ OneTxn)'
    BY DEF IInv, Inv, TypeOK, LockInv, BootInv, UpdateInv, ConfirmInv,
      RollbackInv, OneTxn, RollbackForget, Load, Fresh
  <2>4. HistoryInv'
    BY DEF IInv, Inv, TypeOK, LockInv, BootInv, UpdateInv, ConfirmInv,
      RollbackInv, HistoryInv, RollbackForget, Load, Fresh
  <2>5. Recoverable'
    BY DEF IInv, Inv, TypeOK, LockInv, BootInv, UpdateInv, ConfirmInv,
      RollbackInv, Recoverable, RollbackForget, Load, Fresh
  <2> QED
    BY <2>1, <2>2, <2>3, <2>4, <2>5 DEF Inv
<1> QED
  BY <1>1, <1>2 DEF IInv

\* A crash at any point keeps the files, of which an upgrade may spoil one.
LEMMA Crash_IInv ==
  ASSUME IInv, Crash
  PROVE  IInv'
<1>1. rpc' \in [Handlers -> Locals]
  BY IdleFacts DEF IInv, Crash
<1>2. /\ persisted' \in Configs \cup {NoFile, Garbage}
      /\ revert' \in Configs \cup {NoFile, Garbage}
      /\ accepted' \in Configs
  BY DEF IInv, TypeOK, Crash
<1>3. crashes' \in 0..MaxCrashes
  BY DEF IInv, TypeOK, Crash
<1>4. timer' \in [TxnIds -> TimerPcs] /\ table' \in [TxnIds -> {"absent", "armed", "spent"}]
  BY DEF IInv, TypeOK, Crash
<1>5. TypeOK'
  BY <1>1, <1>2, <1>3, <1>4 DEF IInv, TypeOK, Crash
<1>6. Inv'
  <2>1. (LockInv /\ BootInv)'
    BY DEF IInv, Inv, TypeOK, LockInv, BootInv, Recoverable, Crash, Idle,
      Locals, Load, Fresh
  <2>2. (UpdateInv /\ ConfirmInv)'
    BY DEF IInv, Inv, TypeOK, LockInv, BootInv, UpdateInv, ConfirmInv,
      RollbackInv, Crash, Idle, Locals, Load, Fresh
  <2>3. (RollbackInv /\ OneTxn)'
    BY DEF IInv, Inv, TypeOK, LockInv, BootInv, UpdateInv, ConfirmInv,
      RollbackInv, OneTxn, Crash, Idle, Locals, Load, Fresh
  <2>4. HistoryInv'
    BY DEF IInv, Inv, TypeOK, LockInv, BootInv, UpdateInv, ConfirmInv,
      RollbackInv, HistoryInv, Crash, Idle, Locals, Load, Fresh
  <2>5. Recoverable'
    BY DEF IInv, Inv, TypeOK, LockInv, BootInv, UpdateInv, ConfirmInv,
      RollbackInv, Recoverable, Crash, Idle, Locals, Load, Fresh
  <2> QED
    BY <2>1, <2>2, <2>3, <2>4, <2>5 DEF Inv
<1> QED
  BY <1>5, <1>6 DEF IInv

\* Booting starts with the restore phase.
LEMMA Start_IInv ==
  ASSUME IInv, Start
  PROVE  IInv'
<1>1. TypeOK'
  BY DEF IInv, TypeOK, Start
<1>2. Inv'
  <2>1. (LockInv /\ BootInv)'
    BY DEF IInv, Inv, TypeOK, LockInv, BootInv, Recoverable, Start, Load, Fresh
  <2>2. (UpdateInv /\ ConfirmInv)'
    BY DEF IInv, Inv, TypeOK, LockInv, BootInv, UpdateInv, ConfirmInv,
      RollbackInv, Start, Load, Fresh
  <2>3. (RollbackInv /\ OneTxn)'
    BY DEF IInv, Inv, TypeOK, LockInv, BootInv, UpdateInv, ConfirmInv,
      RollbackInv, OneTxn, Start, Load, Fresh
  <2>4. HistoryInv'
    BY DEF IInv, Inv, TypeOK, LockInv, BootInv, UpdateInv, ConfirmInv,
      RollbackInv, HistoryInv, Start, Load, Fresh
  <2>5. Recoverable'
    BY DEF IInv, Inv, TypeOK, LockInv, BootInv, UpdateInv, ConfirmInv,
      RollbackInv, Recoverable, Start, Load, Fresh
  <2> QED
    BY <2>1, <2>2, <2>3, <2>4, <2>5 DEF Inv
<1> QED
  BY <1>1, <1>2 DEF IInv

\* The boot sequence reads the snapshot, or discards an unreadable one.
LEMMA RestoreRead_IInv ==
  ASSUME IInv, RestoreRead
  PROVE  IInv'
<1>1. TypeOK'
  BY LoadType DEF IInv, TypeOK, RestoreRead
<1>2. Inv'
  <2>1. (LockInv /\ BootInv)'
    BY DEF IInv, Inv, TypeOK, LockInv, BootInv, Recoverable, RestoreRead, Load,
      Fresh
  <2>2. (UpdateInv /\ ConfirmInv)'
    BY DEF IInv, Inv, TypeOK, LockInv, BootInv, UpdateInv, ConfirmInv,
      RollbackInv, RestoreRead, Load, Fresh
  <2>3. (RollbackInv /\ OneTxn)'
    BY DEF IInv, Inv, TypeOK, LockInv, BootInv, UpdateInv, ConfirmInv,
      RollbackInv, OneTxn, RestoreRead, Load, Fresh
  <2>4. HistoryInv'
    BY DEF IInv, Inv, TypeOK, LockInv, BootInv, UpdateInv, ConfirmInv,
      RollbackInv, HistoryInv, RestoreRead, Load, Fresh
  <2>5. Recoverable'
    BY DEF IInv, Inv, TypeOK, LockInv, BootInv, UpdateInv, ConfirmInv,
      RollbackInv, Recoverable, RestoreRead, Load, Fresh
  <2> QED
    BY <2>1, <2>2, <2>3, <2>4, <2>5 DEF Inv
<1> QED
  BY <1>1, <1>2 DEF IInv

\* The boot sequence writes the accepted configuration to networking.json.
LEMMA RestorePersist_IInv ==
  ASSUME IInv, RestorePersist
  PROVE  IInv'
<1>1. TypeOK'
  BY DEF IInv, TypeOK, RestorePersist
<1>2. Inv'
  <2>1. (LockInv /\ BootInv)'
    BY DEF IInv, Inv, TypeOK, LockInv, BootInv, Recoverable, RestorePersist,
      Load, Fresh
  <2>2. (UpdateInv /\ ConfirmInv)'
    BY DEF IInv, Inv, TypeOK, LockInv, BootInv, UpdateInv, ConfirmInv,
      RollbackInv, RestorePersist, Load, Fresh
  <2>3. (RollbackInv /\ OneTxn)'
    BY DEF IInv, Inv, TypeOK, LockInv, BootInv, UpdateInv, ConfirmInv,
      RollbackInv, OneTxn, RestorePersist, Load, Fresh
  <2>4. HistoryInv'
    BY DEF IInv, Inv, TypeOK, LockInv, BootInv, UpdateInv, ConfirmInv,
      RollbackInv, HistoryInv, RestorePersist, Load, Fresh
  <2>5. Recoverable'
    BY DEF IInv, Inv, TypeOK, LockInv, BootInv, UpdateInv, ConfirmInv,
      RollbackInv, Recoverable, RestorePersist, Load, Fresh
  <2> QED
    BY <2>1, <2>2, <2>3, <2>4, <2>5 DEF Inv
<1> QED
  BY <1>1, <1>2 DEF IInv

\* Applying changes NetworkManager only.
LEMMA RestoreApplyStart_IInv ==
  ASSUME IInv, RestoreApplyStart
  PROVE  IInv'
<1>1. TypeOK'
  BY DEF IInv, TypeOK, RestoreApplyStart
<1>2. Inv'
  <2>1. (LockInv /\ BootInv)'
    BY DEF IInv, Inv, TypeOK, LockInv, BootInv, Recoverable, RestoreApplyStart,
      Load, Fresh
  <2>2. (UpdateInv /\ ConfirmInv)'
    BY DEF IInv, Inv, TypeOK, LockInv, BootInv, UpdateInv, ConfirmInv,
      RollbackInv, RestoreApplyStart, Load, Fresh
  <2>3. (RollbackInv /\ OneTxn)'
    BY DEF IInv, Inv, TypeOK, LockInv, BootInv, UpdateInv, ConfirmInv,
      RollbackInv, OneTxn, RestoreApplyStart, Load, Fresh
  <2>4. HistoryInv'
    BY DEF IInv, Inv, TypeOK, LockInv, BootInv, UpdateInv, ConfirmInv,
      RollbackInv, HistoryInv, RestoreApplyStart, Load, Fresh
  <2>5. Recoverable'
    BY DEF IInv, Inv, TypeOK, LockInv, BootInv, UpdateInv, ConfirmInv,
      RollbackInv, Recoverable, RestoreApplyStart, Load, Fresh
  <2> QED
    BY <2>1, <2>2, <2>3, <2>4, <2>5 DEF Inv
<1> QED
  BY <1>1, <1>2 DEF IInv

\* Applying changes NetworkManager only.
LEMMA RestoreApplyEnd_IInv ==
  ASSUME IInv, RestoreApplyEnd
  PROVE  IInv'
<1>1. TypeOK'
  BY DEF IInv, TypeOK, RestoreApplyEnd
<1>2. Inv'
  <2>1. (LockInv /\ BootInv)'
    BY DEF IInv, Inv, TypeOK, LockInv, BootInv, Recoverable, RestoreApplyEnd,
      Load, Fresh
  <2>2. (UpdateInv /\ ConfirmInv)'
    BY DEF IInv, Inv, TypeOK, LockInv, BootInv, UpdateInv, ConfirmInv,
      RollbackInv, RestoreApplyEnd, Load, Fresh
  <2>3. (RollbackInv /\ OneTxn)'
    BY DEF IInv, Inv, TypeOK, LockInv, BootInv, UpdateInv, ConfirmInv,
      RollbackInv, OneTxn, RestoreApplyEnd, Load, Fresh
  <2>4. HistoryInv'
    BY DEF IInv, Inv, TypeOK, LockInv, BootInv, UpdateInv, ConfirmInv,
      RollbackInv, HistoryInv, RestoreApplyEnd, Load, Fresh
  <2>5. Recoverable'
    BY DEF IInv, Inv, TypeOK, LockInv, BootInv, UpdateInv, ConfirmInv,
      RollbackInv, Recoverable, RestoreApplyEnd, Load, Fresh
  <2> QED
    BY <2>1, <2>2, <2>3, <2>4, <2>5 DEF Inv
<1> QED
  BY <1>1, <1>2 DEF IInv

\* The snapshot goes only after networking.json holds its content.
LEMMA RestoreUnlink_IInv ==
  ASSUME IInv, RestoreUnlink
  PROVE  IInv'
<1>1. TypeOK'
  BY DEF IInv, TypeOK, RestoreUnlink
<1>2. Inv'
  <2>1. (LockInv /\ BootInv)'
    BY DEF IInv, Inv, TypeOK, LockInv, BootInv, Recoverable, RestoreUnlink,
      Load, Fresh
  <2>2. (UpdateInv /\ ConfirmInv)'
    BY DEF IInv, Inv, TypeOK, LockInv, BootInv, UpdateInv, ConfirmInv,
      RollbackInv, RestoreUnlink, Load, Fresh
  <2>3. (RollbackInv /\ OneTxn)'
    BY DEF IInv, Inv, TypeOK, LockInv, BootInv, UpdateInv, ConfirmInv,
      RollbackInv, OneTxn, RestoreUnlink, Load, Fresh
  <2>4. HistoryInv'
    BY DEF IInv, Inv, TypeOK, LockInv, BootInv, UpdateInv, ConfirmInv,
      RollbackInv, HistoryInv, RestoreUnlink, Load, Fresh
  <2>5. Recoverable'
    BY DEF IInv, Inv, TypeOK, LockInv, BootInv, UpdateInv, ConfirmInv,
      RollbackInv, Recoverable, RestoreUnlink, Load, Fresh
  <2> QED
    BY <2>1, <2>2, <2>3, <2>4, <2>5 DEF Inv
<1> QED
  BY <1>1, <1>2 DEF IInv

\* A restore cut short keeps the snapshot.
LEMMA RestoreTimeout_IInv ==
  ASSUME IInv, RestoreTimeout
  PROVE  IInv'
<1>1. TypeOK'
  BY DEF IInv, TypeOK, RestoreTimeout
<1>2. Inv'
  <2>1. (LockInv /\ BootInv)'
    BY DEF IInv, Inv, TypeOK, LockInv, BootInv, Recoverable, RestoreTimeout,
      Load, Fresh
  <2>2. (UpdateInv /\ ConfirmInv)'
    BY DEF IInv, Inv, TypeOK, LockInv, BootInv, UpdateInv, ConfirmInv,
      RollbackInv, RestoreTimeout, Load, Fresh
  <2>3. (RollbackInv /\ OneTxn)'
    BY DEF IInv, Inv, TypeOK, LockInv, BootInv, UpdateInv, ConfirmInv,
      RollbackInv, OneTxn, RestoreTimeout, Load, Fresh
  <2>4. HistoryInv'
    BY DEF IInv, Inv, TypeOK, LockInv, BootInv, UpdateInv, ConfirmInv,
      RollbackInv, HistoryInv, RestoreTimeout, Load, Fresh
  <2>5. Recoverable'
    BY DEF IInv, Inv, TypeOK, LockInv, BootInv, UpdateInv, ConfirmInv,
      RollbackInv, Recoverable, RestoreTimeout, Load, Fresh
  <2> QED
    BY <2>1, <2>2, <2>3, <2>4, <2>5 DEF Inv
<1> QED
  BY <1>1, <1>2 DEF IInv

\* reconcile_orphans changes NetworkManager only.
LEMMA ReconcileStart_IInv ==
  ASSUME IInv, ReconcileStart
  PROVE  IInv'
<1>1. TypeOK'
  BY LoadType DEF IInv, TypeOK, ReconcileStart
<1>2. Inv'
  <2>1. (LockInv /\ BootInv)'
    BY DEF IInv, Inv, TypeOK, LockInv, BootInv, Recoverable, ReconcileStart,
      Load, Fresh
  <2>2. (UpdateInv /\ ConfirmInv)'
    BY DEF IInv, Inv, TypeOK, LockInv, BootInv, UpdateInv, ConfirmInv,
      RollbackInv, ReconcileStart, Load, Fresh
  <2>3. (RollbackInv /\ OneTxn)'
    BY DEF IInv, Inv, TypeOK, LockInv, BootInv, UpdateInv, ConfirmInv,
      RollbackInv, OneTxn, ReconcileStart, Load, Fresh
  <2>4. HistoryInv'
    BY DEF IInv, Inv, TypeOK, LockInv, BootInv, UpdateInv, ConfirmInv,
      RollbackInv, HistoryInv, ReconcileStart, Load, Fresh
  <2>5. Recoverable'
    BY DEF IInv, Inv, TypeOK, LockInv, BootInv, UpdateInv, ConfirmInv,
      RollbackInv, Recoverable, ReconcileStart, Load, Fresh
  <2> QED
    BY <2>1, <2>2, <2>3, <2>4, <2>5 DEF Inv
<1> QED
  BY <1>1, <1>2 DEF IInv

\* reconcile_orphans changes NetworkManager only.
LEMMA ReconcileEnd_IInv ==
  ASSUME IInv, ReconcileEnd
  PROVE  IInv'
<1>1. TypeOK'
  BY LoadType DEF IInv, TypeOK, ReconcileEnd
<1>2. Inv'
  <2>1. (LockInv /\ BootInv)'
    BY DEF IInv, Inv, TypeOK, LockInv, BootInv, Recoverable, ReconcileEnd, Load,
      Fresh
  <2>2. (UpdateInv /\ ConfirmInv)'
    BY DEF IInv, Inv, TypeOK, LockInv, BootInv, UpdateInv, ConfirmInv,
      RollbackInv, ReconcileEnd, Load, Fresh
  <2>3. (RollbackInv /\ OneTxn)'
    BY DEF IInv, Inv, TypeOK, LockInv, BootInv, UpdateInv, ConfirmInv,
      RollbackInv, OneTxn, ReconcileEnd, Load, Fresh
  <2>4. HistoryInv'
    BY DEF IInv, Inv, TypeOK, LockInv, BootInv, UpdateInv, ConfirmInv,
      RollbackInv, HistoryInv, ReconcileEnd, Load, Fresh
  <2>5. Recoverable'
    BY DEF IInv, Inv, TypeOK, LockInv, BootInv, UpdateInv, ConfirmInv,
      RollbackInv, Recoverable, ReconcileEnd, Load, Fresh
  <2> QED
    BY <2>1, <2>2, <2>3, <2>4, <2>5 DEF Inv
<1> QED
  BY <1>1, <1>2 DEF IInv

-----------------------------------------------------------------------------
\* A first start satisfies the inductive invariant.
LEMMA Init_IInv == Init => IInv
<1> SUFFICES ASSUME Init PROVE IInv
  OBVIOUS
<1>1. rpc \in [Handlers -> Locals] /\ \A h \in Handlers : rpc[h].pc = "idle"
  BY IdleFacts DEF Init
<1>2. /\ crashes \in 0..MaxCrashes
      /\ table \in [TxnIds -> {"absent", "armed", "spent"}]
      /\ timer \in [TxnIds -> TimerPcs]
      /\ tprev \in [TxnIds -> Configs]
  BY DEF Init
<1>3. TypeOK
  BY <1>1, <1>2 DEF Init, TypeOK
<1>4. Inv
  BY <1>1 DEF Init, Inv, LockInv, BootInv, UpdateInv, ConfirmInv, RollbackInv,
         OneTxn, HistoryInv, Recoverable, Load
<1> QED
  BY <1>3, <1>4 DEF IInv

\* Every step preserves the inductive invariant: one case per action.
LEMMA Next_IInv == IInv /\ [Next]_vars => IInv'
<1> SUFFICES ASSUME IInv, [Next]_vars PROVE IInv'
  OBVIOUS
<1>1. CASE \E h \in Handlers : Request(h) \/ HandlerStep(h) \/ Dropped(h)
  <2> PICK h \in Handlers : Request(h) \/ HandlerStep(h) \/ Dropped(h)
    BY <1>1
  <2>1. CASE Request(h)
    BY <2>1, RequestUpdate_IInv, RequestConfirm_IInv, RequestNmApply_IInv DEF Request
  <2>2. CASE UpdateStep(h)
    BY <2>2, UpdateBegin_IInv, UpdateSnapshot_IInv, UpdatePersist_IInv,
       UpdateApplyStart_IInv, UpdateApplyEnd_IInv, UpdateFinish_IInv DEF UpdateStep
  <2>3. CASE ConfirmStep(h)
    BY <2>3, ConfirmBegin_IInv, ConfirmUnlink_IInv, ConfirmCommit_IInv DEF ConfirmStep
  <2>4. CASE NmApplyStep(h)
    BY <2>4, NmApplyLoad_IInv, NmApplyStart_IInv, NmApplyEnd_IInv DEF NmApplyStep
  <2>5. CASE Dropped(h)
    BY <2>5, Dropped_IInv
  <2> QED
    BY <2>1, <2>2, <2>3, <2>4, <2>5 DEF HandlerStep
<1>2. CASE \E t \in TxnIds : TimerStep(t)
  <2> PICK t \in TxnIds : TimerStep(t)
    BY <1>2
  <2>1. CASE Elapse(t) \/ Cancelled(t)
    BY <2>1, Elapse_IInv, Cancelled_IInv
  <2>2. CASE RollbackStep(t)
    BY <2>2, RollbackBegin_IInv, RollbackRead_IInv, RollbackPersist_IInv,
       RollbackApplyStart_IInv, RollbackApplyEnd_IInv, RollbackUnlink_IInv,
       RollbackForget_IInv DEF RollbackStep
  <2> QED
    BY <2>1, <2>2 DEF TimerStep
<1>3. CASE Crash
  BY <1>3, Crash_IInv
<1>4. CASE BootStep
  BY <1>4, Start_IInv, RestoreRead_IInv, RestorePersist_IInv,
     RestoreApplyStart_IInv, RestoreApplyEnd_IInv, RestoreUnlink_IInv,
     RestoreTimeout_IInv, ReconcileStart_IInv, ReconcileEnd_IInv DEF BootStep
<1>5. CASE UNCHANGED vars
  BY <1>5 DEF vars, IInv, TypeOK, Inv, LockInv, BootInv, UpdateInv, ConfirmInv,
         RollbackInv, OneTxn, HistoryInv, Recoverable, Load
<1> QED
  BY <1>1, <1>2, <1>3, <1>4, <1>5 DEF Next

\* The inductive invariant holds in every reachable state.
THEOREM Invariance == Spec => []IInv
  BY Init_IInv, Next_IInv, PTL DEF Spec

\* Type correctness, whatever the constants.
THEOREM TypeCorrect == Spec => []TypeOK
  BY Invariance, PTL DEF IInv

\* Crash safety: with any number of concurrent requests and restarts, and with
\* any combination of faults, a restart never finds an unconfirmed change
\* without the snapshot of the last accepted configuration.
THEOREM CrashSafety == Spec => []Recoverable
<1>1. IInv => Recoverable
  BY DEF IInv, Inv
<1> QED
  BY <1>1, Invariance, PTL

\* A confirm that returned Ok is never followed by a rollback of the same
\* transaction, however the timer and the confirm race for the lock.
THEOREM ConfirmIsFinal == Spec => []ConfirmWins
<1>1. IInv => ConfirmWins
  BY DEF IInv, Inv, HistoryInv, ConfirmWins
<1> QED
  BY <1>1, Invariance, PTL

\* The single snapshot path is never shared by two transactions, and a
\* transaction that can still be confirmed is not being rolled back.
THEOREM OneTransaction == Spec => []SingleTransaction
<1>1. IInv => SingleTransaction
  BY DEF IInv, Inv, OneTxn, RollbackInv, SingleTransaction
<1> QED
  BY <1>1, Invariance, PTL

\* Only update() writes a snapshot, and it does so only when there is none.
LEMMA Step_Snapshot ==
  ASSUME IInv, [Next]_vars, revert \in Configs, revert' \in Configs
  PROVE  revert' = revert
<1>1. CASE \E h \in Handlers : UpdateSnapshot(h)
  <2> PICK h \in Handlers : UpdateSnapshot(h)
    BY <1>1
  <2>1. revert = NoFile
    BY DEF UpdateSnapshot, IInv, Inv, UpdateInv
  <2> QED
    BY <2>1
<1>2. CASE ~ \E h \in Handlers : UpdateSnapshot(h)
  BY <1>2 DEF Next, vars, Request, HandlerStep, UpdateStep, ConfirmStep,
     NmApplyStep, TimerStep, RollbackStep, BootStep, RequestUpdate, UpdateBegin,
     UpdatePersist, UpdateApplyStart, UpdateApplyEnd, UpdateFinish, RequestConfirm,
     ConfirmBegin, ConfirmUnlink, ConfirmCommit, RequestNmApply, NmApplyLoad,
     NmApplyStart, NmApplyEnd, Dropped, Elapse, Cancelled, RollbackBegin,
     RollbackRead, RollbackPersist, RollbackApplyStart, RollbackApplyEnd,
     RollbackUnlink, RollbackForget, Crash, Start, RestoreRead, RestorePersist,
     RestoreApplyStart, RestoreApplyEnd, RestoreUnlink, RestoreTimeout,
     ReconcileStart, ReconcileEnd
<1> QED
  BY <1>1, <1>2

\* The snapshot of an unconfirmed change survives until it is confirmed,
\* restored or found unreadable: no step replaces it by another snapshot.
THEOREM SnapshotKept == Spec => SnapshotNeverOverwritten
<1>1. IInv /\ [Next]_vars
        => [(revert \in Configs /\ revert' \in Configs) => revert' = revert]_vars
  BY Step_Snapshot
<1> QED
  BY <1>1, Invariance, PTL DEF Spec, SnapshotNeverOverwritten
-----------------------------------------------------------------------------
(* What the trial of a change and a completed rollback rest on, beyond IInv. *)

\* A change goes on trial from the fallback itself, and no transaction outlives
\* its snapshot's legibility.
TrialInv ==
    /\ \A h \in Handlers :
          rpc[h].pc = "persist" /\ rpc[h].armed => revert = Load(persisted)
    /\ revert = Garbage => \A t \in TxnIds : table[t] = "absent"

\* Once a rollback has completed, no update and no transaction is left; one that
\* is about to complete has applied the snapshot, and nobody strayed since.
LiveInv ==
    /\ rolledBack = "yes" =>
          /\ live \in {Load(persisted), Mixed}
          /\ phase = "serving"
          /\ \A h \in Handlers : rpc[h].pc \notin UpdateHolding
          /\ \A t \in TxnIds : table[t] = "absent"
    /\ \A t \in TxnIds :
          timer[t] \in {"unlink", "forget"} /\ rolledBack = "no"
             => live \in {Load(persisted), Mixed}

SettleInv == TrialInv /\ LiveInv

\* The steps of a request, but for those of update().
LEMMA Confirm_Settle ==
  ASSUME IInv, SettleInv, NEW h \in Handlers,
         Request(h) \/ ConfirmStep(h) \/ NmApplyStep(h) \/ Dropped(h)
  PROVE  SettleInv'
<1> USE DEF IInv, Inv, TypeOK, SettleInv, TrialInv, LiveInv, LockInv, BootInv,
            ConfirmInv, UpdateInv, Load
<1>1. CASE RequestUpdate(h)
  <2>1. PICK c \in Configs : rpc' = Call(h, "update", c, DefaultCfg, FALSE, Nobody)
    BY <1>1 DEF RequestUpdate
  <2> QED
    BY <1>1, <2>1 DEF RequestUpdate, Call, Locals
<1>2. CASE RequestConfirm(h)
  <2>1. PICK t \in TxnIds : rpc' = Call(h, "confirm", DefaultCfg, DefaultCfg, FALSE, t)
    BY <1>2 DEF RequestConfirm
  <2> QED
    BY <1>2, <2>1 DEF RequestConfirm, Call, Locals
<1>3. CASE RequestNmApply(h)
  BY <1>3 DEF RequestNmApply, Goto, Locals
<1>4. CASE ConfirmBegin(h)
  BY <1>4 DEF ConfirmBegin, Goto, Return, Idle, Locals
<1>5. CASE ConfirmUnlink(h)
  BY <1>5 DEF ConfirmUnlink, ReturnErr, Goto, Return, Idle, Locals
<1>6. CASE ConfirmCommit(h)
  BY <1>6 DEF ConfirmCommit, Return, Idle, Locals
<1>7. CASE NmApplyLoad(h)
  BY <1>7 DEF NmApplyLoad, Call, Locals
<1>8. CASE NmApplyStart(h)
  BY <1>8 DEF NmApplyStart, Goto, Return, Idle, Locals
<1>9. CASE NmApplyEnd(h)
  BY <1>9 DEF NmApplyEnd, Return, Idle, Locals
<1>10. CASE Dropped(h)
  BY <1>10 DEF Dropped, Return, Idle, Locals
<1> QED
  BY <1>1, <1>2, <1>3, <1>4, <1>5, <1>6, <1>7, <1>8, <1>9, <1>10
  DEF Request, ConfirmStep, NmApplyStep

\* update(): admitted, it ends what the last rollback settled; it holds the lock
\* from its snapshot to its write.
LEMMA Update_Settle ==
  ASSUME IInv, SettleInv, NEW h \in Handlers, UpdateStep(h)
  PROVE  SettleInv'
<1> USE DEF IInv, Inv, TypeOK, SettleInv, TrialInv, LiveInv, LockInv, BootInv,
            ConfirmInv, UpdateInv, Load
<1>1. CASE UpdateBegin(h) /\ Refused(h)
  BY <1>1 DEF UpdateBegin, Return, Idle, Locals
<1>2. CASE UpdateBegin(h) /\ ~ Refused(h)
  <2>1. PICK window \in {"optout", "optin", "default"}, risk \in BOOLEAN :
           /\ lock' = h
           /\ rpc' = Call(h,
                          IF Armed(window, risk) THEN "snapshot" ELSE "persist",
                          rpc[h].cfg, Load(persisted), Armed(window, risk), Nobody)
           /\ rolledBack' = "no"
    BY <1>2 DEF UpdateBegin
  <2>2. /\ rpc'[h].pc = "persist" => ~ rpc'[h].armed
        /\ \A g \in Handlers \ {h} : rpc'[g] = rpc[g]
    BY <2>1 DEF Call
  <2>3. /\ revert = NoFile /\ \A t \in TxnIds : table[t] = "absent"
        /\ UNCHANGED <<disk, live, table, timerVars, bootVars>>
        /\ lock = Nobody
    BY <1>2 DEF Refused, UpdateBegin
  <2>4. TrialInv'
    BY <2>1, <2>2, <2>3
  <2>5. \A t \in TxnIds : timer'[t] \notin {"unlink", "forget"}
    BY <2>3
  <2> QED
    BY <2>1, <2>4, <2>5
<1>3. CASE UpdateSnapshot(h)
  BY <1>3 DEF UpdateSnapshot, ReturnErr, Goto, Return, Idle, Locals
<1>4. CASE UpdatePersist(h)
  BY <1>4 DEF UpdatePersist, ReturnErr, Goto, Return, Idle, Locals
<1>5. ASSUME NEW from \in {"apply1", "apply2"}, NEW to \in {"applying1", "applying2"},
             UpdateApplyStart(h, from, to)
      PROVE  SettleInv'
  BY <1>5 DEF UpdateApplyStart, ReturnErr, Goto, Return, Idle, Locals
<1>6. ASSUME NEW from \in {"applying1", "applying2"}, UpdateApplyEnd(h, from)
      PROVE  SettleInv'
  BY <1>6 DEF UpdateApplyEnd, Goto, Locals
<1>7. CASE UpdateFinish(h)
  BY <1>7 DEF UpdateFinish, ScheduleRollback, Fresh, Return, Idle, Locals
<1> QED
  BY <1>1, <1>2, <1>3, <1>4, <1>5, <1>6, <1>7 DEF UpdateStep

\* The rollback task applies the snapshot before it forgets the transaction.
LEMMA Timer_Settle ==
  ASSUME IInv, SettleInv, NEW t \in TxnIds, TimerStep(t)
  PROVE  SettleInv'
<1> USE DEF IInv, Inv, TypeOK, SettleInv, TrialInv, LiveInv, LockInv, BootInv,
            UpdateInv, RollbackInv, OneTxn, Load
<1>1. CASE Elapse(t)
  BY <1>1 DEF Elapse
<1>2. CASE Cancelled(t)
  BY <1>2 DEF Cancelled
<1>3. CASE RollbackBegin(t)
  BY <1>3 DEF RollbackBegin
<1>4. CASE RollbackRead(t)
  BY <1>4 DEF RollbackRead, RollbackErr
<1>5. CASE RollbackPersist(t)
  BY <1>5 DEF RollbackPersist, RollbackErr
<1>6. CASE RollbackApplyStart(t)
  BY <1>6 DEF RollbackApplyStart, RollbackErr
<1>7. CASE RollbackApplyEnd(t)
  BY <1>7 DEF RollbackApplyEnd
<1>8. CASE RollbackUnlink(t)
  BY <1>8 DEF RollbackUnlink, RollbackErr
<1>9. CASE RollbackForget(t)
  BY <1>9 DEF RollbackForget
<1> QED
  BY <1>1, <1>2, <1>3, <1>4, <1>5, <1>6, <1>7, <1>8, <1>9
  DEF TimerStep, RollbackStep

\* Nothing of a rollback survives a crash, and boot starts none.
LEMMA Boot_Settle ==
  ASSUME IInv, SettleInv, Crash \/ BootStep
  PROVE  SettleInv'
<1> USE DEF IInv, Inv, TypeOK, SettleInv, TrialInv, LiveInv, BootInv, Load
<1>1. CASE Crash
  BY <1>1, IdleFacts DEF Crash
<1>2. CASE Start \/ RestoreTimeout
  BY <1>2 DEF Start, RestoreTimeout
<1>3. CASE RestoreRead
  BY <1>3 DEF RestoreRead
<1>4. CASE RestorePersist \/ RestoreUnlink
  BY <1>4 DEF RestorePersist, RestoreUnlink
<1>5. CASE RestoreApplyStart \/ RestoreApplyEnd
  BY <1>5 DEF RestoreApplyStart, RestoreApplyEnd
<1>6. CASE ReconcileStart \/ ReconcileEnd
  BY <1>6 DEF ReconcileStart, ReconcileEnd
<1> QED
  BY <1>1, <1>2, <1>3, <1>4, <1>5, <1>6 DEF BootStep

\* Both invariants hold in every reachable state.
THEOREM Settled == Spec => [](IInv /\ SettleInv)
<1>1. Init => SettleInv
  BY IdleFacts DEF Init, SettleInv, TrialInv, LiveInv
<1>2. IInv /\ SettleInv /\ [Next]_vars => SettleInv'
  <2> SUFFICES ASSUME IInv, SettleInv, [Next]_vars PROVE SettleInv'
    OBVIOUS
  <2>1. CASE UNCHANGED vars
    BY <2>1 DEF vars, SettleInv, TrialInv, LiveInv, Load
  <2> QED
    BY <2>1, Confirm_Settle, Update_Settle, Timer_Settle, Boot_Settle
    DEF Next, HandlerStep
<1> QED
  BY <1>1, <1>2, Init_IInv, Next_IInv, PTL DEF Spec

\* After a completed rollback NetworkManager runs nothing but the persisted
\* configuration, whatever ran while the rollback did: the next update is the
\* first that may change it, an nm_apply with a stale configuration apart.
THEOREM RolledBackIsLive == Spec => []RolledBackLive
<1>1. SettleInv => RolledBackLive
  BY DEF SettleInv, LiveInv, RolledBackLive
<1> QED
  BY <1>1, Settled, PTL

-----------------------------------------------------------------------------
(* The files refine ConfirmOrRevert.                                         *)

\* The stored files and the admitted confirms are all the abstraction sees.
Asked == \E h \in Handlers : rpc[h].pc = "unlink"

\* A step that leaves them alone is a stuttering step of the promise.
LEMMA Quiet ==
  ASSUME UNCHANGED <<persisted, revert>>, Asked' <=> Asked
  PROVE  UNCHANGED Promise!vars
  BY DEF Promise!vars, Asked, Load

\* A confirm that ends before the snapshot is gone is withdrawn.
LEMMA Ended ==
  ASSUME UNCHANGED <<persisted, revert>>, ~ Asked'
  PROVE  [Promise!Next]_(Promise!vars)
<1>1. CASE Asked
  <2>1. Promise!Withdraw
    BY DEF Promise!Withdraw, Asked, Load
  <2> QED
    BY <2>1 DEF Promise!Next
<1>2. CASE ~ Asked
  BY <1>2, Quiet
<1> QED
  BY <1>1, <1>2

\* Only the lock holder can be an admitted confirm.
LEMMA AskedHolds ==
  ASSUME IInv, NEW h \in Handlers, rpc[h].pc = "unlink"
  PROVE  lock = h /\ \A g \in Handlers : rpc[g].pc = "unlink" => g = h
  BY DEF IInv, Inv, LockInv

\* update() opens a trial with the fallback and then tries the new
\* configuration, or replaces the fallback when it has no window.
LEMMA Update_Promise ==
  ASSUME IInv, SettleInv, NEW h \in Handlers, UpdateStep(h)
  PROVE  [Promise!Next]_(Promise!vars)
<1>1. lock = Nobody \/ lock = h
  BY DEF UpdateStep, UpdateBegin, UpdateSnapshot, UpdatePersist, UpdateApplyStart,
         UpdateApplyEnd, UpdateFinish, IInv, Inv, LockInv
<1>2. rpc[h].pc # "unlink" /\ ~ Asked
  BY <1>1 DEF UpdateStep, UpdateBegin, UpdateSnapshot, UpdatePersist,
         UpdateApplyStart, UpdateApplyEnd, UpdateFinish, Asked, IInv, Inv, LockInv
<1>3. ASSUME rpc'[h].pc # "unlink", \A g \in Handlers \ {h} : rpc'[g] = rpc[g]
      PROVE  ~ Asked'
  BY <1>2, <1>3 DEF Asked
<1>4. CASE UpdateBegin(h)
  <2>1. ~ Asked'
    <3>1. CASE Refused(h)
      BY <1>3, <1>4, <3>1, ReturnFacts DEF UpdateBegin, IInv
    <3>2. CASE ~ Refused(h)
      <4>1. PICK window \in {"optout", "optin", "default"}, risk \in BOOLEAN :
               rpc' = Call(h,
                           IF Armed(window, risk) THEN "snapshot" ELSE "persist",
                           rpc[h].cfg, Load(persisted), Armed(window, risk), Nobody)
        BY <1>4, <3>2 DEF UpdateBegin
      <4> QED
        BY <1>3, <4>1 DEF Call, IInv, TypeOK
    <3> QED
      BY <3>1, <3>2
  <2> QED
    BY <1>4, <2>1, Ended DEF UpdateBegin
<1>5. CASE UpdateSnapshot(h)
  <2>1. ~ Asked'
    BY <1>3, <1>5, GotoFacts, ReturnFacts DEF UpdateSnapshot, ReturnErr, IInv
  <2>2. CASE UNCHANGED revert
    BY <1>5, <2>1, <2>2, Ended DEF UpdateSnapshot
  <2>3. CASE revert' = rpc[h].prev
    <3>1. revert = NoFile /\ revert' = Load(persisted) /\ UNCHANGED persisted
      BY <1>5, <2>3 DEF UpdateSnapshot, IInv, Inv, UpdateInv
    <3>2. Promise!Open
      BY <1>2, <2>1, <3>1, LoadType DEF Promise!Open, Asked, Load
    <3> QED
      BY <3>2 DEF Promise!Next
  <2> QED
    BY <1>5, <2>2, <2>3 DEF UpdateSnapshot
<1>6. CASE UpdatePersist(h)
  <2>1. ~ Asked'
    BY <1>3, <1>6, GotoFacts, ReturnFacts DEF UpdatePersist, ReturnErr, IInv
  <2>2. CASE UNCHANGED persisted
    BY <1>6, <2>1, <2>2, Ended DEF UpdatePersist
  <2>3. CASE persisted' = rpc[h].cfg
    <3>1. /\ rpc[h].cfg \in Configs /\ UNCHANGED revert
          /\ IF rpc[h].armed THEN revert = Load(persisted) ELSE revert = NoFile
      BY <1>6, LocalsFacts DEF UpdatePersist, IInv, Inv, UpdateInv, SettleInv, TrialInv
    <3>2. CASE rpc[h].armed
      <4>1. Promise!Try(rpc[h].cfg)
        BY <1>2, <2>1, <2>3, <3>1, <3>2, LoadType
        DEF Promise!Try, Promise!Written, Asked, Load
      <4> QED
        BY <3>1, <4>1 DEF Promise!Next
    <3>3. CASE ~ rpc[h].armed
      <4>1. Promise!Set(rpc[h].cfg)
        BY <1>2, <2>1, <2>3, <3>1, <3>3
        DEF Promise!Set, Promise!Written, Asked, Load
      <4> QED
        BY <3>1, <4>1 DEF Promise!Next
    <3> QED
      BY <3>2, <3>3
  <2> QED
    BY <1>6, <2>2, <2>3 DEF UpdatePersist
<1>7. ASSUME NEW from, NEW to \in {"applying1", "applying2"},
             UpdateApplyStart(h, from, to)
      PROVE  [Promise!Next]_(Promise!vars)
  <2>1. ~ Asked'
    BY <1>3, <1>7, GotoFacts, ReturnFacts DEF UpdateApplyStart, ReturnErr, IInv
  <2> QED
    BY <1>7, <2>1, Ended DEF UpdateApplyStart
<1>8. ASSUME NEW from, UpdateApplyEnd(h, from)
      PROVE  [Promise!Next]_(Promise!vars)
  <2>1. ~ Asked'
    BY <1>3, <1>8, GotoFacts DEF UpdateApplyEnd, IInv
  <2> QED
    BY <1>8, <2>1, Ended DEF UpdateApplyEnd
<1>9. CASE UpdateFinish(h)
  <2>1. ~ Asked'
    BY <1>3, <1>9, ReturnFacts DEF UpdateFinish, IInv
  <2> QED
    BY <1>9, <2>1, Ended DEF UpdateFinish
<1> QED
  BY <1>4, <1>5, <1>6, <1>7, <1>8, <1>9 DEF UpdateStep

\* A confirm is asked when it is admitted and accepted when the snapshot goes;
\* a repeated one, whose snapshot is gone already, ends without effect.
LEMMA Confirm_Promise ==
  ASSUME IInv, SettleInv, NEW h \in Handlers, ConfirmStep(h)
  PROVE  [Promise!Next]_(Promise!vars)
<1>1. CASE ConfirmBegin(h)
  <2>1. lock = Nobody /\ UNCHANGED <<persisted, revert>> /\ ~ Asked
    BY <1>1 DEF ConfirmBegin, Asked, IInv, Inv, LockInv
  <2>2. CASE rpc' = Goto(h, "unlink")
    <3>1. Asked'
      BY <2>2, GotoFacts DEF Asked, IInv
    <3>2. Promise!Ask
      BY <2>1, <3>1 DEF Promise!Ask, Asked, Load
    <3> QED
      BY <3>2 DEF Promise!Next
  <2>3. CASE rpc' = Return(h)
    <3>1. ~ Asked'
      BY <2>1, <2>3, ReturnFacts DEF Asked, IInv
    <3> QED
      BY <2>1, <3>1, Ended
  <2> QED
    BY <1>1, <2>2, <2>3 DEF ConfirmBegin
<1>2. CASE ConfirmUnlink(h)
  <2>1. /\ Asked /\ UNCHANGED persisted
        /\ \A g \in Handlers : rpc[g].pc = "unlink" => g = h
    BY <1>2, AskedHolds DEF ConfirmUnlink, Asked
  <2>2. ~ Asked'
    <3>1. rpc'[h].pc # "unlink" /\ \A g \in Handlers \ {h} : rpc'[g] = rpc[g]
      BY <1>2, GotoFacts, ReturnFacts DEF ConfirmUnlink, ReturnErr, IInv
    <3> QED
      BY <2>1, <3>1 DEF Asked
  <2>3. CASE UNCHANGED revert
    BY <2>1, <2>2, <2>3, Ended
  <2>4. CASE revert' = NoFile /\ revert # NoFile
    <3>1. revert \in Configs
      BY <1>2, <2>4 DEF ConfirmUnlink, IInv, Inv, TypeOK, ConfirmInv, SettleInv, TrialInv
    <3>2. Promise!Accept
      BY <2>1, <2>2, <2>4, <3>1, LoadType DEF Promise!Accept, Asked, Load
    <3> QED
      BY <3>2 DEF Promise!Next
  <2> QED
    BY <1>2, <2>3, <2>4 DEF ConfirmUnlink
<1>3. CASE ConfirmCommit(h)
  <2>1. ~ Asked
    BY <1>3 DEF ConfirmCommit, Asked, IInv, Inv, LockInv
  <2>2. ~ Asked'
    BY <1>3, <2>1, ReturnFacts DEF ConfirmCommit, Asked, IInv
  <2> QED
    BY <1>3, <2>2, Ended DEF ConfirmCommit
<1> QED
  BY <1>1, <1>2, <1>3 DEF ConfirmStep

\* Requests and nm_apply are not seen; a dropped confirm is withdrawn.
LEMMA Handler_Promise ==
  ASSUME IInv, NEW h \in Handlers, Request(h) \/ NmApplyStep(h) \/ Dropped(h)
  PROVE  [Promise!Next]_(Promise!vars)
<1>1. UNCHANGED <<persisted, revert>>
  BY DEF Request, NmApplyStep, RequestUpdate, RequestConfirm, RequestNmApply,
         NmApplyLoad, NmApplyStart, NmApplyEnd, Dropped
<1>2. ASSUME rpc[h].pc # "unlink", rpc'[h].pc # "unlink",
             \A g \in Handlers \ {h} : rpc'[g] = rpc[g]
      PROVE  UNCHANGED Promise!vars
  <2>1. Asked' <=> Asked
    BY <1>2 DEF Asked
  <2> QED
    BY <1>1, <2>1, Quiet
<1>3. CASE RequestUpdate(h)
  <2>1. PICK c \in Configs : rpc' = Call(h, "update", c, DefaultCfg, FALSE, Nobody)
    BY <1>3 DEF RequestUpdate
  <2> QED
    BY <1>2, <1>3, <2>1 DEF RequestUpdate, Call, IInv, TypeOK
<1>4. CASE RequestConfirm(h)
  <2>1. PICK t \in TxnIds : rpc' = Call(h, "confirm", DefaultCfg, DefaultCfg, FALSE, t)
    BY <1>4 DEF RequestConfirm
  <2> QED
    BY <1>2, <1>4, <2>1 DEF RequestConfirm, Call, IInv, TypeOK
<1>5. CASE RequestNmApply(h)
  BY <1>2, <1>5, GotoFacts DEF RequestNmApply, IInv
<1>6. CASE NmApplyLoad(h)
  BY <1>2, <1>6 DEF NmApplyLoad, Call, IInv, TypeOK
<1>7. CASE NmApplyStart(h)
  BY <1>2, <1>7, GotoFacts, ReturnFacts DEF NmApplyStart, IInv
<1>8. CASE NmApplyEnd(h)
  BY <1>2, <1>8, ReturnFacts DEF NmApplyEnd, IInv
<1>9. CASE Dropped(h)
  <2>1. rpc'[h].pc = "idle" /\ \A g \in Handlers \ {h} : rpc'[g] = rpc[g]
    BY <1>9, ReturnFacts DEF Dropped, IInv
  <2>2. CASE rpc[h].pc = "unlink"
    <3>1. ~ Asked'
      BY <2>1, <2>2, AskedHolds DEF Asked
    <3> QED
      BY <1>1, <3>1, Ended
  <2>3. CASE rpc[h].pc # "unlink"
    BY <1>2, <2>1, <2>3
  <2> QED
    BY <2>2, <2>3
<1> QED
  BY <1>3, <1>4, <1>5, <1>6, <1>7, <1>8, <1>9 DEF Request, NmApplyStep

\* A rollback writes the fallback over the change on trial, then ends the trial.
LEMMA Timer_Promise ==
  ASSUME IInv, NEW t \in TxnIds, TimerStep(t)
  PROVE  [Promise!Next]_(Promise!vars)
<1> USE DEF RollbackErr
<1>1. UNCHANGED rpc /\ (Asked' <=> Asked)
  BY DEF TimerStep, RollbackStep, Elapse, Cancelled, RollbackBegin, RollbackRead,
         RollbackPersist, RollbackApplyStart, RollbackApplyEnd, RollbackUnlink,
         RollbackForget, Asked
<1>2. timer[t] \in RollbackPcs => ~ Asked
  BY DEF Asked, IInv, Inv, LockInv
<1>3. CASE RollbackPersist(t) /\ persisted' # persisted
  <2>1. revert \in Configs /\ persisted' = revert /\ UNCHANGED revert
    BY <1>3 DEF RollbackPersist, IInv, Inv, RollbackInv
  <2>2. Promise!Undo
    BY <1>1, <1>2, <1>3, <2>1, LoadType
    DEF RollbackPersist, Promise!Undo, Promise!Written, Asked, Load
  <2> QED
    BY <2>2 DEF Promise!Next
<1>4. CASE RollbackUnlink(t) /\ revert' # revert
  <2>1. revert \in Configs /\ persisted = revert /\ revert' = NoFile /\ UNCHANGED persisted
    BY <1>4 DEF RollbackUnlink, IInv, Inv, RollbackInv
  <2>2. Promise!Close
    BY <1>1, <1>2, <1>4, <2>1 DEF RollbackUnlink, Promise!Close, Asked, Load
  <2> QED
    BY <2>2 DEF Promise!Next
<1>5. CASE UNCHANGED <<persisted, revert>>
  BY <1>1, <1>5, Quiet
<1> QED
  BY <1>3, <1>4, <1>5 DEF TimerStep, RollbackStep, Elapse, Cancelled, RollbackBegin,
     RollbackRead, RollbackPersist, RollbackApplyStart, RollbackApplyEnd,
     RollbackUnlink, RollbackForget

\* A crash withdraws a confirm and may come back with a file that is forgotten;
\* boot undoes and closes what a crash cut short.
LEMMA Boot_Promise ==
  ASSUME IInv, Crash \/ BootStep
  PROVE  [Promise!Next]_(Promise!vars)
<1>1. ~ Asked'
  <2>1. CASE Crash
    BY <2>1, IdleFacts DEF Crash, Asked
  <2>2. CASE BootStep
    BY <2>2 DEF BootStep, Start, RestoreRead, RestorePersist, RestoreApplyStart,
       RestoreApplyEnd, RestoreUnlink, RestoreTimeout, ReconcileStart, ReconcileEnd,
       Asked, IInv, Inv, BootInv
  <2> QED
    BY <2>1, <2>2
<1>2. CASE UNCHANGED <<persisted, revert>>
  BY <1>1, <1>2, Ended
<1>3. CASE Crash /\ ~ UNCHANGED <<persisted, revert>>
  <2>1. Promise!Forget
    <3>1. CASE revert' = Garbage /\ UNCHANGED persisted
      <4>1. revert \in Configs
        BY <1>3, <3>1 DEF Crash, IInv, TypeOK
      <4> QED
        BY <1>1, <3>1, <4>1, LoadType DEF Promise!Forget, Asked, Load
    <3>2. CASE persisted' = Garbage /\ UNCHANGED revert
      BY <1>1, <3>2, LoadType DEF Promise!Forget, Asked, Load
    <3> QED
      BY <1>3, <3>1, <3>2 DEF Crash
  <2> QED
    BY <2>1 DEF Promise!Next
<1>4. ASSUME BootStep PROVE ~ Asked
  BY <1>4 DEF BootStep, Start, RestoreRead, RestorePersist, RestoreApplyStart,
     RestoreApplyEnd, RestoreUnlink, RestoreTimeout, ReconcileStart, ReconcileEnd,
     Asked, IInv, Inv, BootInv
<1>5. CASE RestoreRead /\ ~ UNCHANGED <<persisted, revert>>
  <2>1. revert = Garbage /\ revert' = NoFile /\ UNCHANGED persisted /\ ~ Asked
    BY <1>4, <1>5 DEF RestoreRead, BootStep
  <2>2. CASE persisted = Garbage
    BY <1>1, <2>1, <2>2 DEF Promise!vars, Asked, Load
  <2>3. CASE persisted # Garbage
    <3>1. Promise!Discard
      BY <1>1, <2>1, <2>3 DEF Promise!Discard, Asked, Load
    <3> QED
      BY <3>1 DEF Promise!Next
  <2> QED
    BY <2>2, <2>3
<1>6. CASE RestorePersist /\ ~ UNCHANGED <<persisted, revert>>
  <2>1. revert \in Configs /\ persisted' = revert /\ UNCHANGED revert /\ ~ Asked
    BY <1>4, <1>6 DEF RestorePersist, BootStep, IInv, Inv, BootInv
  <2>2. Promise!Undo
    BY <1>1, <2>1, LoadType DEF Promise!Undo, Promise!Written, Asked, Load
  <2> QED
    BY <2>2 DEF Promise!Next
<1>7. CASE RestoreUnlink /\ ~ UNCHANGED <<persisted, revert>>
  <2>1. /\ revert \in Configs /\ persisted = revert
        /\ revert' = NoFile /\ UNCHANGED persisted /\ ~ Asked
    BY <1>4, <1>7 DEF RestoreUnlink, BootStep, IInv, Inv, BootInv
  <2>2. Promise!Close
    BY <1>1, <2>1 DEF Promise!Close, Asked, Load
  <2> QED
    BY <2>2 DEF Promise!Next
<1> QED
  BY <1>2, <1>3, <1>5, <1>6, <1>7 DEF BootStep, Start, RestoreApplyStart,
     RestoreApplyEnd, RestoreTimeout, ReconcileStart, ReconcileEnd

\* NetworkService keeps the promise of ConfirmOrRevert: for any number of
\* handlers, timers and restarts and any faults, the configuration a box falls
\* back to changes only by an update without a window, by an admitted confirm,
\* or because a new version cannot read a file.
THEOREM PromiseHolds == Spec => PromiseKept
<1>1. Init => Promise!Init
  BY IdleFacts DEF Init, Promise!Init, Load
<1>2. IInv /\ SettleInv /\ [Next]_vars => [Promise!Next]_(Promise!vars)
  <2> SUFFICES ASSUME IInv, SettleInv, [Next]_vars
               PROVE  [Promise!Next]_(Promise!vars)
    OBVIOUS
  <2>1. CASE UNCHANGED vars
    <3>1. UNCHANGED <<persisted, revert>> /\ (Asked' <=> Asked)
      BY <2>1 DEF vars, Asked
    <3> QED
      BY <3>1, Quiet
  <2> QED
    BY <2>1, Update_Promise, Confirm_Promise, Handler_Promise, Timer_Promise,
       Boot_Promise DEF Next, HandlerStep
<1> QED
  BY <1>1, <1>2, Settled, PTL DEF Spec, PromiseKept, Promise!Spec
=============================================================================
