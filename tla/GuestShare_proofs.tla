-------------------------- MODULE GuestShare_proofs --------------------------
(***************************************************************************)
(* The safety properties of GuestShare for every value of its constants:   *)
(* any number of shares and requests under way, any caps, expiries and     *)
(* limits.                                                                 *)
(***************************************************************************)
EXTENDS GuestShare, FiniteSetTheorems, TLAPS

\* Each program point belongs to some operations only.
Fits(f) ==
    /\ f.pc # "idle" => f.share \in Shares
    /\ f.pc = "lookup" => f.op \in GuestOps
    /\ f.pc \in {"check", "relookup"} => f.op = "unlock"
    /\ f.pc = "browse" => f.op \in GuestOps \ Downloads
    /\ f.pc \in {"open", "stream"} => f.op \in Downloads
    /\ f.pc \in {"wait", "save"} => f.op \in OperatorOps \cup Downloads \cup {"meta"}

OpInv == \A r \in Slots : Fits(req[r])

\* A spawned task is in the queue of state_lock, and the one that has loaded a
\* record is its head.
QueueInv ==
    \A r \in Slots :
        /\ req[r].pc \in {"wait", "save"} => \E i \in 1..Len(queue) : queue[i] = r
        /\ req[r].pc = "save" => queue[1] = r

Creating(r) == req[r].op = "create" /\ req[r].pc \in {"wait", "save"}

\* A record to be created is the only one of its share, and new.
CreateInv ==
    \A r \in Slots : Creating(r) =>
        /\ disk[req[r].share] = None
        /\ req[r].copy \in Records /\ req[r].copy.downloads = 0
        /\ \A q \in Slots : Creating(q) /\ req[q].share = req[r].share => q = r

\* What a task is about to save was computed from the record that is still on
\* disk, and a download only from one that was accessible.
CopyInv ==
    \A r \in Slots : req[r].pc = "save" /\ req[r].op # "create" =>
        LET record == disk[req[r].share] IN
        /\ record \in Records
        /\ req[r].copy = Changed(r, record)
        /\ req[r].op \in Downloads =>
              ~record.revoked /\ (record.cap # None => record.downloads < record.cap)

\* The counter on disk is never behind the responses that began.
CountInv ==
    \A s \in Shares :
        /\ disk[s] = None => served[s] = 0
        /\ disk[s] # None /\ disk[s].cap # None =>
              served[s] <= disk[s].downloads /\ disk[s].downloads <= disk[s].cap

Inv == OpInv /\ QueueInv /\ CreateInv /\ CopyInv /\ CountInv

IInv == TypeOK /\ Inv

-----------------------------------------------------------------------------
USE SharesAssumption, LimitsAssumption, NoneAssumption
USE DEF memory, Times, OperatorOps, Downloads, GuestOps, Pcs, Pools

\* The slot of a request that is over is idle.
LEMMA IdleType == Idle \in Requests /\ Idle.pc = "idle"
  BY DEF Idle, Requests

\* A handler that replies leaves the other slots alone.
LEMMA ReplyFacts ==
  ASSUME TypeOK, NEW r \in Slots
  PROVE  /\ Reply(r) \in [Slots -> Requests]
         /\ Reply(r)[r].pc = "idle"
         /\ \A q \in Slots \ {r} : Reply(r)[q] = req[q]
  BY IdleType DEF TypeOK, Reply

\* The fields of a request have their types.
LEMMA FieldFacts ==
  ASSUME TypeOK, NEW r \in Slots
  PROVE  /\ req[r].op \in OperatorOps \cup GuestOps \cup {None}
         /\ req[r].share \in Shares \cup {None}
         /\ req[r].pc \in Pcs /\ req[r].now \in Times
         /\ req[r].copy \in Records \cup {None} /\ req[r].live \in BOOLEAN
  BY DEF TypeOK, Requests

\* A permit taken while there is one, or given back, leaves a count.
LEMMA FreeFacts ==
  ASSUME TypeOK, NEW pool \in Pools
  PROVE  /\ free[pool] > 0 => Acquire(pool) \in [Pools -> Nat]
         /\ Release(pool) \in [Pools -> Nat]
<1>1. free \in [Pools -> Nat] /\ \A n \in Nat : n + 1 \in Nat /\ (n > 0 => n - 1 \in Nat)
  BY DEF TypeOK
<1>2. free[pool] \in Nat
  BY <1>1
<1>3. free[pool] > 0 => Acquire(pool) \in [Pools -> Nat]
  BY <1>1, <1>2 DEF Acquire
<1>4. Release(pool) \in [Pools -> Nat]
  BY <1>1, <1>2 DEF Release
<1> QED
  BY <1>3, <1>4

\* Every operation has a pool.
LEMMA PoolType == \A op : PoolOf(op) \in Pools
  BY DEF PoolOf

\* Dropping expired grants keeps the others.
LEMMA RetainedType ==
  ASSUME TypeOK, NEW now PROVE Retained(now) \in [Shares -> 0..(MaxClock + GrantTtl)]
  BY DEF TypeOK, Retained

\* What a cookie leaves of the grants.
LEMMA CookieType ==
  ASSUME TypeOK, NEW r \in Slots, SendsCookie(r)
  PROVE  grants' \in [Shares -> 0..(MaxClock + GrantTtl)]
<1>1. grants' = grants \/ grants' = Retained(req[r].now)
  BY DEF SendsCookie
<1> QED
  BY <1>1, RetainedType DEF TypeOK

\* A step of one request: the other slots keep theirs.
OneSlot(r) ==
    /\ req' \in [Slots -> Requests]
    /\ \A q \in Slots \ {r} : req'[q] = req[q]
    /\ Fits(req'[r])
    /\ UNCHANGED <<disk, served>>

\* A request that is not a task disturbs nothing that tasks rely on.
LEMMA NoTask ==
  ASSUME NEW r \in Slots, IInv, OneSlot(r), req'[r].pc \notin {"wait", "save"}
  PROVE  OpInv' /\ CreateInv' /\ CopyInv' /\ CountInv'
<1> USE DEF IInv, Inv, OneSlot
<1>1. OpInv'
  BY DEF OpInv
<1>2. CreateInv'
  BY DEF CreateInv, Creating
<1>3. CopyInv'
  BY DEF CopyInv, Changed
<1>4. CountInv'
  BY DEF CountInv
<1> QED
  BY <1>1, <1>2, <1>3, <1>4

\* If it does not leave the queue either, nothing is disturbed.
LEMMA OffQueue ==
  ASSUME NEW r \in Slots, IInv, OneSlot(r), UNCHANGED queue,
         req'[r].pc \notin {"wait", "save"}
  PROVE  Inv'
<1>1. QueueInv'
  BY DEF IInv, Inv, OneSlot, QueueInv
<1> QED
  BY <1>1, NoTask DEF Inv

\* The head of the queue leaves it: nobody else had loaded a record.
LEMMA LeavesQueue ==
  ASSUME NEW r \in Slots, IInv, req[r].pc \in {"wait", "save"}, queue[1] = r,
         \A q \in Slots \ {r} : req'[q] = req[q],
         req'[r].pc \notin {"wait", "save"}, queue' = Tail(queue)
  PROVE  QueueInv' /\ queue' \in Seq(Slots)
<1> USE DEF IInv, Inv
<1>1. PICK j \in 1..Len(queue) : queue[j] = r
  BY DEF QueueInv
<1>2. /\ queue \in Seq(Slots) /\ queue # <<>> /\ queue' \in Seq(Slots)
      /\ Len(queue') = Len(queue) - 1
      /\ \A i \in 1..Len(queue') : queue'[i] = queue[i + 1]
  BY <1>1 DEF TypeOK
<1>3. ASSUME NEW q \in Slots, req'[q].pc \in {"wait", "save"}
      PROVE  req'[q].pc = "wait" /\ \E i \in 1..Len(queue') : queue'[i] = q
  <2>1. q # r /\ req'[q] = req[q]
    BY <1>3
  <2>2. PICK i \in 1..Len(queue) : queue[i] = q
    BY <1>3, <2>1 DEF QueueInv
  <2>3. i # 1 /\ i - 1 \in 1..Len(queue') /\ (i - 1) + 1 = i
    BY <1>2, <2>1, <2>2
  <2>4. queue'[i - 1] = q
    BY <1>2, <2>2, <2>3
  <2>5. req[q].pc # "save"
    BY <2>1 DEF QueueInv
  <2> QED
    BY <1>3, <2>1, <2>3, <2>4, <2>5
<1> QED
  BY <1>2, <1>3 DEF QueueInv

\* A task that joins the queue, other than one that creates a record, waits
\* behind whoever has the lock.
LEMMA JoinsQueue ==
  ASSUME NEW r \in Slots, IInv, OneSlot(r), queue' = Append(queue, r),
         req'[r].pc = "wait"
  PROVE  OpInv' /\ QueueInv' /\ CopyInv' /\ CountInv'
         /\ (req'[r].op # "create" => CreateInv')
<1> USE DEF IInv, Inv, OneSlot
<1>1. OpInv'
  BY DEF OpInv
<1>2. QueueInv'
  <2> SUFFICES ASSUME NEW q \in Slots, req'[q].pc \in {"wait", "save"}
               PROVE  /\ \E i \in 1..Len(queue') : queue'[i] = q
                      /\ req'[q].pc = "save" => queue'[1] = q
    BY DEF QueueInv
  <2>0. /\ queue \in Seq(Slots) /\ Len(queue') = Len(queue) + 1
        /\ queue'[Len(queue) + 1] = r
        /\ \A i \in 1..Len(queue) : queue'[i] = queue[i]
    BY DEF TypeOK
  <2>1. CASE q = r
    BY <2>0, <2>1
  <2>2. CASE q # r
    <3>1. PICK i \in 1..Len(queue) : queue[i] = q
      BY <2>2 DEF QueueInv
    <3>2. req[q].pc = "save" => queue[1] = q
      BY DEF QueueInv
    <3>3. 1 \in 1..Len(queue) /\ i \in 1..Len(queue')
      BY <2>0, <3>1
    <3> QED
      BY <2>0, <2>2, <3>1, <3>2, <3>3
  <2> QED
    BY <2>1, <2>2
<1>3. CopyInv'
  BY DEF CopyInv, Changed
<1>4. CountInv'
  BY DEF CountInv
<1>5. ASSUME req'[r].op # "create" PROVE CreateInv'
  BY <1>5 DEF CreateInv, Creating
<1> QED
  BY <1>1, <1>2, <1>3, <1>4, <1>5

\* A record to be created is the only one of its share: its id is fresh.
LEMMA CreateCall_IInv ==
  ASSUME NEW r \in Slots, IInv, CreateCall(r)
  PROVE  IInv'
<1> USE DEF IInv, Inv
<1>1. PICK s \in Shares, protected \in BOOLEAN, cap \in Caps, expires \in Expiries :
         /\ ~Present(s) /\ \A q \in Slots : req[q].op = "create" => req[q].share # s
         /\ req' = [req EXCEPT ![r] =
               [Idle EXCEPT !.op = "create", !.share = s, !.pc = "wait",
                            !.copy = [protected |-> protected, cap |-> cap,
                                      expires |-> expires, revoked |-> FALSE,
                                      hidden |-> FALSE, downloads |-> 0]]]
         /\ queue' = Append(queue, r)
  BY DEF CreateCall
<1> DEFINE copy == [protected |-> protected, cap |-> cap, expires |-> expires,
                    revoked |-> FALSE, hidden |-> FALSE, downloads |-> 0]
           new == [Idle EXCEPT !.op = "create", !.share = s, !.pc = "wait", !.copy = copy]
<1>2. copy \in Records /\ copy.downloads = 0
  BY DEF Records
<1> HIDE DEF copy
<1>3. /\ new \in Requests /\ new.op = "create" /\ new.share = s /\ new.pc = "wait"
      /\ new.copy = copy
  BY <1>2, IdleType DEF Requests
<1>4. req' = [req EXCEPT ![r] = new]
  BY <1>1 DEF copy
<1> HIDE DEF new
<1>5. OneSlot(r) /\ req'[r] = new
  BY <1>3, <1>4 DEF OneSlot, TypeOK, Fits, CreateCall
<1>6. TypeOK'
  <2>1. queue' \in Seq(Slots)
    BY <1>1 DEF TypeOK
  <2> QED
    BY <1>5, <2>1 DEF TypeOK, OneSlot, CreateCall
<1>7. OpInv' /\ QueueInv' /\ CopyInv' /\ CountInv'
  BY <1>1, <1>3, <1>5, JoinsQueue
<1>8. CreateInv'
  <2>1. /\ \A q \in Slots \ {r} : req'[q] = req[q] /\ (Creating(q)' <=> Creating(q))
        /\ UNCHANGED disk
    BY <1>5 DEF OneSlot, Creating
  <2>2. \A q \in Slots \ {r} : Creating(q) => req[q].share # s
    BY <1>1 DEF Creating
  <2>3. disk[s] = None
    BY <1>1 DEF Present
  <2>4. req'[r].copy = copy /\ req'[r].share = s
    BY <1>3, <1>5
  <2> QED
    BY <1>2, <2>1, <2>2, <2>3, <2>4 DEF CreateInv
<1> QED
  BY <1>6, <1>7, <1>8

\* A revocation or a removal queues for the lock.
LEMMA OperatorCall_IInv ==
  ASSUME NEW r \in Slots, IInv, OperatorCall(r)
  PROVE  IInv'
<1> USE DEF IInv
<1>1. PICK op \in {"revoke", "remove"}, s \in Shares :
         /\ req' = [req EXCEPT ![r] = [Idle EXCEPT !.op = op, !.share = s, !.pc = "wait"]]
         /\ queue' = Append(queue, r)
  BY DEF OperatorCall
<1> DEFINE new == [Idle EXCEPT !.op = op, !.share = s, !.pc = "wait"]
<1>2. new \in Requests /\ new.op = op /\ new.share = s /\ new.pc = "wait"
  BY IdleType DEF Requests
<1>3. req' = [req EXCEPT ![r] = new]
  BY <1>1
<1> HIDE DEF new
<1>4. OneSlot(r) /\ req'[r] = new
  BY <1>2, <1>3 DEF OneSlot, TypeOK, Fits, OperatorCall
<1>5. TypeOK'
  <2>1. queue' \in Seq(Slots)
    BY <1>1 DEF TypeOK
  <2> QED
    BY <1>4, <2>1 DEF TypeOK, OneSlot, OperatorCall
<1> QED
  BY <1>1, <1>2, <1>4, <1>5, JoinsQueue DEF Inv

\* A guest's request holds nothing yet.
LEMMA GuestCall_IInv ==
  ASSUME NEW r \in Slots, IInv, GuestCall(r)
  PROVE  IInv'
<1> USE DEF IInv
<1>1. PICK op \in GuestOps, s \in Shares :
         req' = [req EXCEPT ![r] = [Idle EXCEPT !.op = op, !.share = s,
                                                !.pc = "lookup", !.now = clock]]
  BY DEF GuestCall
<1> DEFINE new == [Idle EXCEPT !.op = op, !.share = s, !.pc = "lookup", !.now = clock]
<1>2. new \in Requests /\ new.op = op /\ new.share = s /\ new.pc = "lookup"
  BY DEF Requests, Idle, TypeOK
<1>3. req' = [req EXCEPT ![r] = new]
  BY <1>1
<1> HIDE DEF new
<1>4. OneSlot(r) /\ req'[r] = new
  BY <1>2, <1>3 DEF OneSlot, TypeOK, Fits, GuestCall
<1>5. TypeOK'
  BY <1>4 DEF TypeOK, OneSlot, GuestCall
<1> QED
  BY <1>2, <1>4, <1>5, OffQueue DEF GuestCall

\* A step that sets one slot.
LEMMA SlotFacts ==
  ASSUME TypeOK, NEW r \in Slots, NEW m \in Requests, req' = [req EXCEPT ![r] = m]
  PROVE  /\ req' \in [Slots -> Requests] /\ req'[r] = m
         /\ \A q \in Slots \ {r} : req'[q] = req[q]
  BY DEF TypeOK

\* The clock starts at zero.
LEMMA ZeroTime == 0 \in Times
  OBVIOUS

\* A request that moves on to p keeps its operation and its share.
LEMMA MoveFacts ==
  ASSUME TypeOK, NEW r \in Slots, NEW p \in Pcs, NEW now \in Times,
         req' = [req EXCEPT ![r].pc = p, ![r].now = now]
  PROVE  /\ req' \in [Slots -> Requests]
         /\ \A q \in Slots \ {r} : req'[q] = req[q]
         /\ req'[r].pc = p /\ req'[r].op = req[r].op /\ req'[r].share = req[r].share
<1> DEFINE m == [req[r] EXCEPT !.pc = p, !.now = now]
<1>1. req[r] \in Requests /\ req' = [req EXCEPT ![r] = m]
  BY DEF TypeOK
<1>2. m \in Requests /\ m.pc = p /\ m.op = req[r].op /\ m.share = req[r].share
  BY <1>1 DEF Requests
<1> HIDE DEF m
<1> QED
  BY <1>1, <1>2, SlotFacts

\* A request that is answered holds nothing any more.
LEMMA Replies ==
  ASSUME NEW r \in Slots, TypeOK, req' = Reply(r), UNCHANGED <<disk, served>>
  PROVE  OneSlot(r) /\ req'[r].pc = "idle"
  BY ReplyFacts DEF OneSlot, Fits

\* A refusal changes nothing but the grants.
LEMMA LookupFails_IInv ==
  ASSUME NEW r \in Slots, IInv, LookupFails(r)
  PROVE  IInv'
<1> USE DEF IInv
<1>1. OneSlot(r) /\ req'[r].pc = "idle"
  BY Replies DEF LookupFails
<1>2. grants' \in [Shares -> 0..(MaxClock + GrantTtl)]
  BY CookieType DEF LookupFails, TypeOK
<1>3. TypeOK'
  BY <1>1, <1>2 DEF TypeOK, OneSlot, LookupFails
<1> QED
  BY <1>1, <1>3, OffQueue DEF LookupFails

\* A view is counted by a task that queues, or not at all.
LEMMA RecordView_Inv ==
  ASSUME NEW r \in Slots, IInv, RecordView(r), UNCHANGED <<disk, served>>,
         req[r].op = "meta", req[r].pc \in {"lookup", "browse"}
  PROVE  Inv' /\ req' \in [Slots -> Requests] /\ queue' \in Seq(Slots)
<1> USE DEF IInv
<1>1. CASE queue = <<>>
  <2>1. /\ req' = [req EXCEPT ![r].pc = "wait", ![r].now = 0]
        /\ queue' = Append(queue, r)
    BY <1>1, SMTT(30) DEF RecordView, Spawn
  <2>2. /\ req' \in [Slots -> Requests] /\ \A q \in Slots \ {r} : req'[q] = req[q]
        /\ req'[r].pc = "wait" /\ req'[r].op = "meta" /\ req'[r].share = req[r].share
    BY <2>1, MoveFacts, ZeroTime
  <2>3. OneSlot(r)
    BY <2>2 DEF OneSlot, Fits, Inv, OpInv
  <2>4. queue' \in Seq(Slots)
    BY <2>1 DEF TypeOK
  <2>5. OpInv' /\ QueueInv' /\ CopyInv' /\ CountInv' /\ CreateInv'
    <3>1. req'[r].pc = "wait" /\ req'[r].op # "create" /\ queue' = Append(queue, r)
      BY <2>1, <2>2
    <3> QED
      BY <2>3, <3>1, JoinsQueue
  <2> QED
    BY <2>2, <2>4, <2>5 DEF Inv
<1>2. CASE queue # <<>>
  <2>1. OneSlot(r) /\ req'[r].pc = "idle" /\ UNCHANGED queue
    BY <1>2, Replies DEF RecordView
  <2> QED
    BY <2>1, OffQueue DEF TypeOK, OneSlot
<1> QED
  BY <1>1, <1>2

\* A view of a locked share is counted like any other.
LEMMA MetaLocked_IInv ==
  ASSUME NEW r \in Slots, IInv, MetaLocked(r)
  PROVE  IInv'
<1> USE DEF IInv
<1>1. Inv' /\ req' \in [Slots -> Requests] /\ queue' \in Seq(Slots)
  BY RecordView_Inv DEF MetaLocked
<1>2. grants' \in [Shares -> 0..(MaxClock + GrantTtl)]
  BY CookieType DEF MetaLocked
<1>3. TypeOK'
  BY <1>1, <1>2 DEF TypeOK, MetaLocked
<1> QED
  BY <1>1, <1>3

\* A worker starts under a permit.
LEMMA StartWorker_IInv ==
  ASSUME NEW r \in Slots, IInv, StartWorker(r)
  PROVE  IInv'
<1> USE DEF IInv
<1> DEFINE p == IF PoolOf(req[r].op) = "browse" THEN "browse" ELSE "open"
<1>1. /\ req' = [req EXCEPT ![r].pc = p, ![r].now = 0]
      /\ req[r].pc = "lookup" /\ req[r].op # "unlock" /\ Fits(req[r])
  BY DEF StartWorker, Inv, OpInv
<1>2. p \in Pcs /\ (p = "browse" \/ (p = "open" /\ req[r].op \in Downloads))
      /\ (p = "browse" => req[r].op \in GuestOps \ Downloads)
  BY <1>1 DEF PoolOf, Fits
<1> HIDE DEF p
<1>3. OneSlot(r) /\ req'[r].pc = p
  <2>1. /\ req' \in [Slots -> Requests] /\ \A q \in Slots \ {r} : req'[q] = req[q]
        /\ req'[r].pc = p /\ req'[r].op = req[r].op /\ req'[r].share = req[r].share
    BY <1>1, <1>2, MoveFacts, ZeroTime
  <2> QED
    BY <1>1, <1>2, <2>1, SMTT(30) DEF OneSlot, Fits, StartWorker
<1>4. TypeOK'
  BY <1>3, PoolType, FreeFacts, RetainedType DEF TypeOK, OneSlot, StartWorker
<1> QED
  BY <1>2, <1>3, <1>4, OffQueue DEF StartWorker

\* An attempt to unlock is refused, starts a worker or goes on.
LEMMA Unlock_IInv ==
  ASSUME NEW r \in Slots, IInv, Unlock(r)
  PROVE  IInv'
<1> USE DEF IInv
<1>1. Fits(req[r]) /\ UNCHANGED <<clock, disk, queue, grants, served>>
      /\ clock \in Times /\ req[r].pc = "lookup" /\ req[r].op = "unlock"
  BY DEF Unlock, Inv, OpInv, TypeOK
<1>2. OneSlot(r) /\ req'[r].pc \in {"idle", "check", "relookup"}
  <2>1. CASE req' = Reply(r)
    BY <1>1, <2>1, Replies
  <2>2. CASE req' = [req EXCEPT ![r].pc = "check", ![r].now = 0]
    <3>1. /\ req' \in [Slots -> Requests] /\ \A q \in Slots \ {r} : req'[q] = req[q]
          /\ req'[r].pc = "check" /\ req'[r].op = req[r].op
          /\ req'[r].share = req[r].share
      BY <2>2, MoveFacts, ZeroTime
    <3> QED
      BY <1>1, <3>1, SMTT(30) DEF OneSlot, Fits
  <2>3. CASE req' = [req EXCEPT ![r].pc = "relookup", ![r].now = clock]
    BY <1>1, <2>3, MoveFacts DEF OneSlot, Fits
  <2> QED
    BY <2>1, <2>2, <2>3 DEF Unlock
<1>3. free' \in [Pools -> Nat]
  BY FreeFacts DEF Unlock, TypeOK
<1>4. TypeOK'
  BY <1>1, <1>2, <1>3 DEF TypeOK, OneSlot
<1> QED
  BY <1>1, <1>2, <1>4, OffQueue

\* The password worker gives its permit back.
LEMMA CheckEnd_IInv ==
  ASSUME NEW r \in Slots, IInv, CheckEnd(r)
  PROVE  IInv'
<1> USE DEF IInv
<1>1. Fits(req[r]) /\ UNCHANGED <<clock, disk, queue, grants, served>>
      /\ clock \in Times /\ req[r].pc = "check"
  BY DEF CheckEnd, Inv, OpInv, TypeOK
<1>2. OneSlot(r) /\ req'[r].pc \in {"idle", "relookup"}
  <2>1. CASE req' = Reply(r)
    BY <1>1, <2>1, Replies
  <2>2. CASE req' = [req EXCEPT ![r].pc = "relookup", ![r].now = clock]
    BY <1>1, <2>2, MoveFacts DEF OneSlot, Fits
  <2> QED
    BY <2>1, <2>2 DEF CheckEnd
<1>3. TypeOK'
  BY <1>1, <1>2, FreeFacts DEF TypeOK, OneSlot, CheckEnd
<1> QED
  BY <1>1, <1>2, <1>3, OffQueue

\* The second lookup starts a worker or ends the request.
LEMMA Relookup_IInv ==
  ASSUME NEW r \in Slots, IInv, Relookup(r)
  PROVE  IInv'
<1> USE DEF IInv
<1>1. Fits(req[r]) /\ UNCHANGED <<clock, disk, queue, grants, served>>
      /\ req[r].pc = "relookup"
  BY DEF Relookup, Inv, OpInv
<1>2. OneSlot(r) /\ req'[r].pc \in {"idle", "browse"}
  <2>1. CASE req' = Reply(r)
    BY <1>1, <2>1, Replies
  <2>2. CASE req' = Goto(r, "browse")
    <3>1. /\ req' \in [Slots -> Requests] /\ \A q \in Slots \ {r} : req'[q] = req[q]
          /\ req'[r].pc = "browse" /\ req'[r].op = req[r].op
          /\ req'[r].share = req[r].share
      <4> DEFINE m == [req[r] EXCEPT !.pc = "browse"]
      <4>1. req[r] \in Requests /\ req' = [req EXCEPT ![r] = m]
        BY <2>2 DEF TypeOK, Goto
      <4>2. /\ m \in Requests /\ m.pc = "browse" /\ m.op = req[r].op
            /\ m.share = req[r].share
        BY <4>1 DEF Requests
      <4> HIDE DEF m
      <4> QED
        BY <4>1, <4>2 DEF TypeOK
    <3> QED
      BY <1>1, <3>1 DEF OneSlot, Fits
  <2> QED
    BY <2>1, <2>2 DEF Relookup
<1>3. free' \in [Pools -> Nat]
  BY FreeFacts DEF Relookup, TypeOK
<1>4. TypeOK'
  BY <1>1, <1>2, <1>3 DEF TypeOK, OneSlot
<1> QED
  BY <1>1, <1>2, <1>4, OffQueue

\* The browsing worker ends: a grant is minted, a view counted or neither.
LEMMA BrowseEnd_IInv ==
  ASSUME NEW r \in Slots, IInv, BrowseEnd(r)
  PROVE  IInv'
<1> USE DEF IInv
<1>1. /\ Fits(req[r]) /\ UNCHANGED <<clock, disk, served>> /\ req[r].pc = "browse"
      /\ free' \in [Pools -> Nat]
  BY FreeFacts DEF BrowseEnd, Inv, OpInv
<1>2. grants' \in [Shares -> 0..(MaxClock + GrantTtl)]
  <2>1. CASE UNCHANGED grants
    BY <2>1 DEF TypeOK
  <2>2. CASE grants' = [Retained(req[r].now) EXCEPT ![req[r].share] =
                           IF @ > req[r].now + GrantTtl THEN @ ELSE req[r].now + GrantTtl]
    BY <1>1, <2>2, RetainedType, FieldFacts DEF Fits
  <2> QED
    BY <2>1, <2>2 DEF BrowseEnd
<1>3. CASE req' = Reply(r) /\ UNCHANGED queue
  <2>1. OneSlot(r) /\ req'[r].pc = "idle"
    BY <1>1, <1>3, Replies
  <2>2. TypeOK'
    BY <1>1, <1>2, <1>3, <2>1 DEF TypeOK, OneSlot
  <2> QED
    BY <1>3, <2>1, <2>2, OffQueue
<1>4. CASE req[r].op = "meta" /\ RecordView(r)
  <2>1. Inv' /\ req' \in [Slots -> Requests] /\ queue' \in Seq(Slots)
    BY <1>1, <1>4, RecordView_Inv
  <2>2. TypeOK'
    BY <1>1, <1>2, <2>1 DEF TypeOK
  <2> QED
    BY <2>1, <2>2
<1> QED
  BY <1>3, <1>4 DEF BrowseEnd

\* A download that found its file queues for the lock with its permit.
LEMMA OpenEnd_IInv ==
  ASSUME NEW r \in Slots, IInv, OpenEnd(r)
  PROVE  IInv'
<1> USE DEF IInv
<1>1. /\ Fits(req[r]) /\ UNCHANGED <<clock, disk, grants, served>> /\ req[r].pc = "open"
      /\ free' \in [Pools -> Nat] /\ clock \in Times
  BY FreeFacts, PoolType DEF OpenEnd, Inv, OpInv, TypeOK
<1>2. CASE Spawn(r, clock)
  <2>1. OneSlot(r) /\ req'[r].pc = "wait" /\ req'[r].op \in Downloads
        /\ queue' = Append(queue, r)
    BY <1>1, <1>2, MoveFacts DEF OneSlot, Fits, Spawn
  <2>2. queue' \in Seq(Slots)
    BY <2>1 DEF TypeOK
  <2>3. TypeOK'
    BY <1>1, <2>1, <2>2 DEF TypeOK, OneSlot
  <2> QED
    BY <2>1, <2>3, JoinsQueue DEF Inv
<1>3. CASE req' = Reply(r) /\ UNCHANGED queue
  <2>1. OneSlot(r) /\ req'[r].pc = "idle"
    BY <1>1, <1>3, Replies
  <2>2. TypeOK'
    BY <1>1, <1>3, <2>1 DEF TypeOK, OneSlot
  <2> QED
    BY <1>3, <2>1, <2>2, OffQueue
<1> QED
  BY <1>2, <1>3 DEF OpenEnd

\* A stream that ends frees its slot.
LEMMA StreamEnd_IInv ==
  ASSUME NEW r \in Slots, IInv, StreamEnd(r)
  PROVE  IInv'
<1> USE DEF IInv
<1>1. OneSlot(r) /\ req'[r].pc = "idle"
  BY Replies DEF StreamEnd
<1>2. TypeOK'
  BY <1>1, FreeFacts, PoolType DEF TypeOK, OneSlot, StreamEnd
<1> QED
  BY <1>1, <1>2, OffQueue DEF StreamEnd

\* A handler that is dropped leaves its task as it was, in the queue.
LEMMA Dropped_IInv ==
  ASSUME NEW r \in Slots, IInv, Dropped(r)
  PROVE  IInv'
<1> USE DEF IInv
<1>1. /\ UNCHANGED <<clock, disk, queue, grants, served>>
      /\ free' \in [Pools -> Nat]
  BY FreeFacts DEF Dropped, TypeOK
<1>2. CASE req' = [req EXCEPT ![r].live = FALSE]
  <2>1. /\ req' \in [Slots -> Requests]
        /\ \A q \in Slots : /\ req'[q].pc = req[q].pc /\ req'[q].op = req[q].op
                             /\ req'[q].share = req[q].share
                             /\ req'[q].copy = req[q].copy
    <3> DEFINE m == [req[r] EXCEPT !.live = FALSE]
    <3>1. req[r] \in Requests /\ req' = [req EXCEPT ![r] = m]
      BY <1>2 DEF TypeOK
    <3>2. /\ m \in Requests /\ m.pc = req[r].pc /\ m.op = req[r].op
          /\ m.share = req[r].share /\ m.copy = req[r].copy
      BY <3>1 DEF Requests
    <3> HIDE DEF m
    <3> QED
      BY <3>1, <3>2 DEF TypeOK
  <2>2. TypeOK'
    BY <1>1, <2>1 DEF TypeOK
  <2>3. OpInv' /\ QueueInv'
    BY <1>1, <2>1, SMTT(30) DEF Inv, OpInv, Fits, QueueInv
  <2>4. CreateInv'
    BY <1>1, <2>1 DEF Inv, CreateInv, Creating
  <2>5. CopyInv'
    BY <1>1, <2>1, ZenonT(60) DEF Inv, CopyInv, Changed
  <2>6. CountInv'
    BY <1>1 DEF Inv, CountInv
  <2> QED
    BY <2>2, <2>3, <2>4, <2>5, <2>6 DEF Inv
<1>3. CASE req' = Reply(r)
  <2>1. OneSlot(r) /\ req'[r].pc = "idle"
    BY <1>1, <1>3, Replies
  <2>2. TypeOK'
    BY <1>1, <2>1 DEF TypeOK, OneSlot
  <2> QED
    BY <1>1, <2>1, <2>2, OffQueue
<1> QED
  BY <1>2, <1>3 DEF Dropped

\* What a task other than a creation saves, next to the record it loaded.
LEMMA ChangedFacts ==
  ASSUME NEW r \in Slots, NEW record \in Records, req[r].op # "create"
  PROVE  /\ Changed(r, record) \in Records
         /\ Changed(r, record).cap = record.cap
         /\ record.revoked => Changed(r, record).revoked
         /\ record.hidden => Changed(r, record).hidden
         /\ Changed(r, record).downloads =
               IF req[r].op \in Downloads THEN Bump(record.downloads) ELSE record.downloads
<1>1. Bump(record.downloads) \in 0..MaxCount
  BY DEF Bump, Records
<1> DEFINE bumped == Bump(record.downloads)
<1> HIDE DEF bumped
<1>2. CASE req[r].op = "revoke"
  <2>1. Changed(r, record) = [record EXCEPT !.revoked = TRUE]
    BY <1>2 DEF Changed
  <2> QED
    BY <1>2, <2>1 DEF Records
<1>3. CASE req[r].op = "remove"
  <2>1. Changed(r, record) = [record EXCEPT !.hidden = TRUE]
    BY <1>3 DEF Changed
  <2> QED
    BY <1>3, <2>1 DEF Records
<1>4. CASE req[r].op \in Downloads
  <2>1. Changed(r, record) = [record EXCEPT !.downloads = bumped]
    BY <1>4 DEF Changed, bumped
  <2>2. bumped \in 0..MaxCount
    BY <1>1 DEF bumped
  <2>3. /\ Changed(r, record) \in Records /\ Changed(r, record).cap = record.cap
        /\ Changed(r, record).revoked = record.revoked
        /\ Changed(r, record).hidden = record.hidden
        /\ Changed(r, record).downloads = bumped
    BY <2>1, <2>2 DEF Records
  <2> QED
    BY <1>4, <2>3 DEF bumped
<1>5. CASE req[r].op \notin {"revoke", "remove"} \cup Downloads
  BY <1>5 DEF Changed
<1> QED
  BY <1>2, <1>3, <1>4, <1>5

\* The record a task is about to save, next to the one on disk: a new one, or
\* one that keeps the cap, the revocation and the count, or adds one download to
\* a record that allowed it.
LEMMA SaveFacts ==
  ASSUME NEW r \in Slots, IInv, req[r].pc = "save"
  PROVE  LET s == req[r].share
             c == req[r].copy
         IN  /\ s \in Shares /\ c \in Records
             /\ req[r].op = "create" => disk[s] = None /\ c.downloads = 0
             /\ req[r].op # "create" =>
                   /\ disk[s] \in Records /\ c.cap = disk[s].cap
                   /\ disk[s].revoked => c.revoked
                   /\ disk[s].hidden => c.hidden
                   /\ req[r].op \notin Downloads => c.downloads = disk[s].downloads
                   /\ req[r].op \in Downloads =>
                         /\ ~disk[s].revoked
                         /\ c.cap # None => /\ c.downloads = disk[s].downloads + 1
                                            /\ c.downloads <= c.cap
<1> USE DEF IInv, Inv
<1>1. req[r].share \in Shares
  BY DEF OpInv, Fits
<1>2. CASE req[r].op = "create"
  BY <1>1, <1>2 DEF CreateInv, Creating
<1>3. CASE req[r].op # "create"
  <2> DEFINE record == disk[req[r].share]
  <2>1. /\ record \in Records /\ req[r].copy = Changed(r, record)
        /\ req[r].op \in Downloads =>
              ~record.revoked /\ (record.cap # None => record.downloads < record.cap)
    BY <1>3 DEF CopyInv
  <2>2. record.cap \in (0..MaxCount) \cup {None} /\ record.downloads \in 0..MaxCount
    BY <2>1 DEF Records
  <2> HIDE DEF record
  <2>3. ASSUME req[r].op \in Downloads, record.cap # None
        PROVE  /\ Bump(record.downloads) = record.downloads + 1
               /\ Bump(record.downloads) <= record.cap
    BY <2>1, <2>2, <2>3 DEF Bump
  <2>4. /\ req[r].copy \in Records /\ req[r].copy.cap = record.cap
        /\ record.revoked => req[r].copy.revoked
        /\ record.hidden => req[r].copy.hidden
        /\ req[r].copy.downloads =
               IF req[r].op \in Downloads THEN Bump(record.downloads) ELSE record.downloads
    BY <1>3, <2>1, ChangedFacts
  <2> QED
    BY <1>1, <1>3, <2>1, <2>3, <2>4 DEF record
<1> QED
  BY <1>2, <1>3

\* The task that has the lock loads the record, and finds that there is nothing
\* to save or computes what to save.
LEMMA TaskLoad_IInv ==
  ASSUME NEW r \in Slots, IInv, TaskLoad(r)
  PROVE  IInv'
<1> USE DEF IInv, Inv
<1> DEFINE record == disk[req[r].share]
           copy == Changed(r, record)
<1>1. /\ req[r].pc = "wait" /\ req[r].share \in Shares /\ Fits(req[r])
      /\ UNCHANGED <<clock, disk, grants, served>>
  BY DEF TaskLoad, OpInv, Fits
<1>2. queue[1] = r
  <2>1. PICK i \in 1..Len(queue) : queue[i] = r
    BY <1>1 DEF QueueInv
  <2> QED
    BY <2>1 DEF TypeOK, TaskLoad
<1>3. CASE req[r].op # "create" /\ Skips(r, record)
  <2>1. TaskFails(r)
    BY <1>3 DEF TaskLoad
  <2>2. OneSlot(r) /\ req'[r].pc = "idle"
    BY <1>1, <2>1, Replies DEF TaskFails
  <2>3. QueueInv' /\ queue' \in Seq(Slots)
    BY <1>1, <1>2, <2>1, <2>2, LeavesQueue DEF TaskFails, OneSlot
  <2>4. free' \in [Pools -> Nat]
    BY <2>1, FreeFacts, PoolType DEF TaskFails, TypeOK
  <2>5. TypeOK'
    BY <1>1, <2>2, <2>3, <2>4 DEF TypeOK, OneSlot
  <2> QED
    BY <2>2, <2>3, <2>5, NoTask
<1>4. CASE ~ (req[r].op # "create" /\ Skips(r, record))
  <2>1. /\ req' = [req EXCEPT ![r].pc = "save", ![r].now = 0, ![r].copy = copy]
        /\ UNCHANGED <<queue, free>>
    BY <1>4 DEF TaskLoad
  <2>2. req[r].op # "create" => record \in Records
    BY <1>1, <1>4 DEF Skips, TypeOK
  <2>3. copy \in Records
    <3>1. CASE req[r].op = "create"
      BY <1>1, <3>1 DEF Changed, CreateInv, Creating
    <3>2. CASE req[r].op # "create"
      BY <2>2, <3>2, ChangedFacts
    <3> QED
      BY <3>1, <3>2
  <2> DEFINE m == [req[r] EXCEPT !.pc = "save", !.now = 0, !.copy = copy]
  <2> HIDE DEF copy
  <2>4. req[r] \in Requests /\ req' = [req EXCEPT ![r] = m]
    BY <2>1 DEF TypeOK
  <2>5. /\ m \in Requests /\ m.pc = "save" /\ m.op = req[r].op
        /\ m.share = req[r].share /\ m.copy = copy
    BY <2>3, <2>4, ZeroTime DEF Requests
  <2> HIDE DEF m
  <2>6. OneSlot(r) /\ req'[r] = m
    BY <1>1, <2>4, <2>5, SlotFacts DEF OneSlot, Fits
  <2>7. TypeOK'
    BY <1>1, <2>1, <2>6 DEF TypeOK, OneSlot
  <2>8. OpInv' /\ CountInv'
    BY <2>6 DEF OpInv, CountInv, OneSlot
  <2>9. QueueInv'
    BY <1>1, <1>2, <2>1, <2>5, <2>6 DEF QueueInv, OneSlot
  <2>10. CreateInv'
    <3>1. req[r].op = "create" => copy = req[r].copy
      BY DEF copy, Changed
    <3>2. \A q \in Slots : /\ Creating(q)' <=> Creating(q)
                           /\ req'[q].share = req[q].share
                           /\ Creating(q) => req'[q].copy = req[q].copy
      BY <1>1, <2>5, <2>6, <3>1 DEF Creating, OneSlot
    <3> QED
      BY <1>1, <3>2 DEF CreateInv
  <2>11. CopyInv'
    <3>1. ASSUME req[r].op # "create"
          PROVE  /\ record \in Records
                 /\ copy = Changed(r, record)'
                 /\ req[r].op \in Downloads =>
                      ~record.revoked /\ (record.cap # None => record.downloads < record.cap)
      BY <1>1, <1>4, <2>2, <2>5, <2>6, <3>1 DEF copy, Changed, Skips, Accessible
    <3>2. \A q \in Slots \ {r} : req'[q] = req[q] /\ req[q].pc # "save"
      BY <1>1, <1>2, <2>6 DEF OneSlot, QueueInv
    <3>3. /\ req'[r].op = req[r].op /\ disk'[req'[r].share] = record
          /\ req'[r].copy = copy
      BY <1>1, <2>5, <2>6
    <3> SUFFICES ASSUME NEW q \in Slots, req'[q].pc = "save", req'[q].op # "create"
                 PROVE  /\ disk'[req'[q].share] \in Records
                        /\ req'[q].copy = Changed(q, disk[req[q].share])'
                        /\ req'[q].op \in Downloads =>
                              /\ ~disk'[req'[q].share].revoked
                              /\ disk'[req'[q].share].cap # None =>
                                    disk'[req'[q].share].downloads < disk'[req'[q].share].cap
      BY DEF CopyInv
    <3>4. q = r
      BY <3>2
    <3>5. req'[r].copy = Changed(r, disk[req[r].share])'
      BY <3>1, <3>3, <3>4
    <3> QED
      BY <3>1, <3>3, <3>4, <3>5
  <2> QED
    BY <2>7, <2>8, <2>9, <2>10, <2>11
<1> QED
  BY <1>3, <1>4

\* A save happens under the lock, from the record that is still on disk.
LEMMA TaskSave_IInv ==
  ASSUME NEW r \in Slots, IInv, TaskSave(r)
  PROVE  IInv'
<1> USE DEF IInv, Inv
<1> DEFINE s == req[r].share
           c == req[r].copy
<1>1. /\ req[r].pc = "save" /\ Fits(req[r]) /\ queue[1] = r
      /\ UNCHANGED <<clock, grants>>
  BY DEF TaskSave, OpInv, QueueInv
<1>2. /\ req' \in [Slots -> Requests] /\ \A q \in Slots \ {r} : req'[q] = req[q]
      /\ req'[r].pc \in {"idle", "stream"} /\ Fits(req'[r])
  <2>1. CASE req' = Reply(r)
    BY <2>1, ReplyFacts DEF Fits
  <2>2. CASE /\ req[r].op \in Downloads
             /\ req' = [req EXCEPT ![r] = [@ EXCEPT !.pc = "stream", !.copy = None]]
    <3> DEFINE m == [req[r] EXCEPT !.pc = "stream", !.copy = None]
    <3>1. req[r] \in Requests /\ req' = [req EXCEPT ![r] = m]
      BY <2>2 DEF TypeOK
    <3>2. /\ m \in Requests /\ m.pc = "stream" /\ m.op = req[r].op
          /\ m.share = req[r].share
      BY <3>1 DEF Requests
    <3> HIDE DEF m
    <3>3. /\ req' \in [Slots -> Requests] /\ req'[r] = m
          /\ \A q \in Slots \ {r} : req'[q] = req[q]
      BY <3>1, <3>2, SlotFacts
    <3> QED
      BY <1>1, <2>2, <3>2, <3>3 DEF Fits
  <2> QED
    BY <2>1, <2>2 DEF TaskSave, TaskFails
<1>3. queue' = Tail(queue) /\ free' \in [Pools -> Nat]
  BY FreeFacts, PoolType DEF TaskSave, TaskFails, TypeOK
<1>4. QueueInv' /\ queue' \in Seq(Slots)
  BY <1>1, <1>2, <1>3, LeavesQueue
<1>5. OpInv'
  BY <1>2 DEF OpInv
<1>6. \A q \in Slots : req'[q].pc # "save"
  BY <1>1, <1>2 DEF QueueInv
<1>7. CopyInv'
  BY <1>6 DEF CopyInv
<1>8. CASE UNCHANGED <<disk, served>>
  <2>1. OneSlot(r)
    BY <1>2, <1>8 DEF OneSlot
  <2>2. TypeOK'
    BY <1>1, <1>2, <1>3, <1>4, <1>8 DEF TypeOK
  <2> QED
    BY <1>2, <1>4, <2>1, <2>2, NoTask
<1>9. CASE disk' = [disk EXCEPT ![s] = c]
  <2>1. s \in Shares /\ c \in Records
    BY <1>1, SaveFacts
  <2>2. /\ disk' \in [Shares -> Records \cup {None}] /\ disk'[s] = c
        /\ \A x \in Shares \ {s} : disk'[x] = disk[x]
    BY <1>9, <2>1 DEF TypeOK
  <2>3. \/ UNCHANGED served
        \/ /\ req[r].op \in Downloads /\ c.cap # None
           /\ served' = [served EXCEPT ![s] = @ + 1]
    BY DEF TaskSave
  <2>4. /\ served' \in [Shares -> Nat]
        /\ \A x \in Shares \ {s} : served'[x] = served[x]
        /\ \/ served'[s] = served[s]
           \/ /\ req[r].op \in Downloads /\ c.cap # None
              /\ served'[s] = served[s] + 1
    <3> HIDE DEF s, c
    <3>1. served \in [Shares -> Nat] /\ served[s] \in Nat
      BY <2>1 DEF TypeOK
    <3> QED
      BY <2>1, <2>3, <3>1
  <2>5. TypeOK'
    BY <1>1, <1>2, <1>3, <1>4, <2>2, <2>4 DEF TypeOK
  <2>6. CountInv'
    <3>1. c.cap # None => served'[s] <= c.downloads /\ c.downloads <= c.cap
      <4> SUFFICES ASSUME c.cap # None
                   PROVE  served'[s] <= c.downloads /\ c.downloads <= c.cap
        OBVIOUS
      <4>1. c.cap \in 0..MaxCount /\ c.downloads \in 0..MaxCount /\ served[s] \in Nat
        BY <2>1 DEF Records, TypeOK
      <4>2. CASE req[r].op = "create"
        <5>1. disk[s] = None /\ c.downloads = 0 /\ served'[s] = served[s]
          BY <1>1, <2>4, <4>2, SaveFacts
        <5> QED
          BY <2>1, <4>1, <5>1 DEF CountInv
      <4>3. CASE req[r].op # "create"
        <5>1. /\ disk[s] \in Records /\ c.cap = disk[s].cap
              /\ req[r].op \notin Downloads => c.downloads = disk[s].downloads
              /\ req[r].op \in Downloads =>
                    c.downloads = disk[s].downloads + 1 /\ c.downloads <= c.cap
          BY <1>1, <4>3, SaveFacts
        <5>2. served[s] <= disk[s].downloads /\ disk[s].downloads <= disk[s].cap
          BY <2>1, <5>1 DEF CountInv
        <5>3. disk[s].downloads \in Nat
          BY <5>1 DEF Records
        <5> QED
          BY <2>4, <4>1, <5>1, <5>2, <5>3
      <4> QED
        BY <4>2, <4>3
    <3> QED
      BY <2>1, <2>2, <2>4, <3>1 DEF CountInv
  <2>7. CreateInv'
    <3>1. ASSUME NEW q \in Slots, Creating(q)'
          PROVE  q # r /\ Creating(q) /\ req[q].share \in Shares \ {s}
      <4>1. q # r /\ Creating(q) /\ req[q].share \in Shares
        BY <1>2, <3>1 DEF Creating, OpInv, Fits
      <4>2. disk[req[q].share] = None
        BY <4>1 DEF CreateInv
      <4>3. CASE req[r].op = "create"
        BY <1>1, <4>1, <4>3 DEF CreateInv, Creating
      <4>4. CASE req[r].op # "create"
        BY <1>1, <4>1, <4>2, <4>4, SaveFacts
      <4> QED
        BY <4>1, <4>3, <4>4
    <3> QED
      BY <1>2, <2>2, <3>1 DEF CreateInv
  <2> QED
    BY <1>4, <1>5, <1>7, <2>5, <2>6, <2>7
<1> QED
  BY <1>8, <1>9 DEF TaskSave

\* A restart leaves the files, and no task.
LEMMA Restart_IInv ==
  ASSUME IInv, Restart
  PROVE  IInv'
<1> USE DEF IInv, Inv
<1>1. req' \in [Slots -> Requests] /\ \A r \in Slots : req'[r].pc = "idle"
  BY IdleType DEF Restart
<1>2. TypeOK'
  BY <1>1 DEF TypeOK, Restart
<1>3. OpInv' /\ QueueInv' /\ CreateInv' /\ CopyInv'
  BY <1>1 DEF OpInv, Fits, QueueInv, CreateInv, Creating, CopyInv
<1>4. CountInv'
  BY DEF CountInv, Restart
<1> QED
  BY <1>2, <1>3, <1>4

\* Nothing stored depends on the clock.
LEMMA Stutter_IInv ==
  ASSUME IInv, ClockChanges \/ UNCHANGED vars
  PROVE  IInv'
<1>1. clock' \in Times /\ UNCHANGED <<disk, queue, req, free, grants, served>>
  BY DEF ClockChanges, vars, IInv, TypeOK
<1>2. TypeOK'
  BY <1>1 DEF IInv, TypeOK
<1>3. OpInv' /\ QueueInv' /\ CountInv'
  BY <1>1 DEF IInv, Inv, OpInv, QueueInv, CountInv
<1>4. CreateInv'
  BY <1>1 DEF IInv, Inv, CreateInv, Creating
<1>5. CopyInv'
  BY <1>1 DEF IInv, Inv, CopyInv, Changed
<1> QED
  BY <1>2, <1>3, <1>4, <1>5 DEF IInv, Inv

-----------------------------------------------------------------------------
\* A first start satisfies the inductive invariant.
LEMMA Init_IInv == Init => IInv
<1> SUFFICES ASSUME Init PROVE IInv
  OBVIOUS
<1>1. req \in [Slots -> Requests] /\ \A r \in Slots : req[r].pc = "idle"
  BY IdleType DEF Init
<1>2. TypeOK
  BY <1>1 DEF Init, TypeOK
<1>3. OpInv /\ QueueInv /\ CreateInv /\ CopyInv
  BY <1>1 DEF OpInv, Fits, QueueInv, CreateInv, Creating, CopyInv
<1>4. CountInv
  BY DEF CountInv, Init
<1> QED
  BY <1>2, <1>3, <1>4 DEF IInv, Inv

\* Every step preserves the inductive invariant: one lemma per action.
LEMMA Next_IInv == IInv /\ [Next]_vars => IInv'
<1> SUFFICES ASSUME IInv, [Next]_vars PROVE IInv'
  OBVIOUS
<1>1. ASSUME NEW r \in Slots, Call(r) PROVE IInv'
  BY <1>1, CreateCall_IInv, OperatorCall_IInv, GuestCall_IInv DEF Call
<1>2. ASSUME NEW r \in Slots, Handle(r) PROVE IInv'
  BY <1>2, LookupFails_IInv, MetaLocked_IInv, StartWorker_IInv, Unlock_IInv,
     Relookup_IInv DEF Handle
<1>3. ASSUME NEW r \in Slots, Work(r) PROVE IInv'
  BY <1>3, CheckEnd_IInv, BrowseEnd_IInv, OpenEnd_IInv, TaskLoad_IInv,
     TaskSave_IInv DEF Work
<1> QED
  BY <1>1, <1>2, <1>3, StreamEnd_IInv, Dropped_IInv, Restart_IInv, Stutter_IInv
  DEF Next

\* The inductive invariant holds in every reachable state.
THEOREM Invariance == Spec => []IInv
  BY Init_IInv, Next_IInv, PTL DEF Spec

\* Type correctness, whatever the constants.
THEOREM TypeCorrect == Spec => []TypeOK
  BY Invariance, PTL DEF IInv

\* The download limit of a share holds for any number of requests that passed
\* their lookup together, whatever is dropped and however often the engine
\* restarts: registrations are counted one after the other, before the response.
THEOREM CapHolds == Spec => []CapKept
<1>1. IInv => CapKept
  <2> SUFFICES ASSUME IInv, NEW s \in Shares, Present(s), disk[s].cap # None
               PROVE  served[s] <= disk[s].cap
    BY DEF CapKept
  <2>1. /\ served[s] <= disk[s].downloads /\ disk[s].downloads <= disk[s].cap
        /\ disk[s] \in Records /\ served[s] \in Nat
    BY DEF IInv, Inv, CountInv, Present, TypeOK
  <2>2. disk[s].cap \in Caps /\ disk[s].downloads \in 0..MaxCount
    BY <2>1 DEF Records
  <2>3. disk[s].cap \in 0..MaxCount
    BY <2>2
  <2> QED
    BY <2>1, <2>2, <2>3
<1> QED
  BY <1>1, Invariance, PTL

\* What a step may do to a stored record that is revoked.
RevokedStays ==
    \A s \in Shares : Present(s) /\ disk[s].revoked =>
        /\ disk'[s] # None
        /\ disk'[s].revoked
        /\ disk'[s].downloads = disk[s].downloads
        /\ disk[s].hidden => disk'[s].hidden

\* Only a save changes a record, and it starts from the record on disk.
LEMMA Step_Revoked ==
  ASSUME IInv, [Next]_vars
  PROVE  RevokedStays
<1>1. ASSUME NEW r \in Slots, TaskSave(r) PROVE RevokedStays
  <2> DEFINE x == req[r].share
             c == req[r].copy
  <2>1. disk' = disk \/ disk' = [disk EXCEPT ![x] = c]
    BY <1>1 DEF TaskSave
  <2>2. x \in Shares /\ c \in Records /\ disk \in [Shares -> Records \cup {None}]
    BY <1>1, SaveFacts DEF TaskSave, IInv, TypeOK
  <2>3. ASSUME disk[x] # None, disk[x].revoked
        PROVE  /\ c # None /\ c.revoked /\ c.downloads = disk[x].downloads
               /\ disk[x].hidden => c.hidden
    <3>1. req[r].pc = "save" /\ c # None
      BY <1>1, <2>2 DEF TaskSave
    <3>2. req[r].op # "create"
      BY <2>3, <3>1, SaveFacts
    <3> QED
      BY <2>3, <3>1, <3>2, SaveFacts
  <2> HIDE DEF x, c
  <2> QED
    BY <2>1, <2>2, <2>3 DEF RevokedStays, Present
<1>2. CASE UNCHANGED disk
  BY <1>2 DEF RevokedStays, Present
<1> QED
  BY <1>1, <1>2 DEF Next, vars, Call, Handle, Work, CreateCall, OperatorCall,
     GuestCall, LookupFails, MetaLocked, StartWorker, Unlock, Relookup, CheckEnd,
     BrowseEnd, OpenEnd, TaskLoad, StreamEnd, Dropped, Restart, ClockChanges

\* A revocation is final, for any number of views, downloads and removals that
\* were under way when it was saved.
THEOREM RevocationIsFinal == Spec => RevokeFinal
<1>1. IInv /\ [Next]_vars => [RevokedStays]_vars
  BY Step_Revoked
<1> QED
  BY <1>1, Invariance, PTL DEF Spec, RevokeFinal, RevokedStays

-----------------------------------------------------------------------------
(* The permits of the semaphores.                                            *)

\* Whether a request at this point holds a permit of the pool, as Holders has it.
Holds(f, pool) ==
    CASE pool = "check" -> f.pc = "check"
      [] pool = "browse" -> f.pc = "browse"
      [] OTHER -> /\ f.op \in Downloads
                  /\ PoolOf(f.op) = pool
                  /\ f.pc \in {"open", "wait", "save", "stream"}

Held(f, pool) == IF Holds(f, pool) THEN 1 ELSE 0

\* A step of one slot in which what the slot holds and what is free keep their
\* sum conserves the permits.
LEMMA Balance ==
  ASSUME IInv, IInv', PermitsConserved, NEW r \in Slots,
         \A q \in Slots \ {r} : req'[q] = req[q],
         \A pool \in Pools :
            free'[pool] + Held(req'[r], pool) = free[pool] + Held(req[r], pool)
  PROVE  PermitsConserved'
<1> SUFFICES ASSUME NEW pool \in Pools
             PROVE  free'[pool] + Cardinality(Holders(pool)') = Permits[pool]
  BY DEF PermitsConserved
<1> DEFINE H == Holders(pool)
           G == Holders(pool)'
<1>1. H = {q \in Slots : Holds(req[q], pool)} /\ G = {q \in Slots : Holds(req'[q], pool)}
  BY DEF Holders, Holds
<1>2. IsFiniteSet(H) /\ IsFiniteSet(G)
  BY <1>1, FS_Subset
<1>3. H \ {r} = G \ {r}
  BY <1>1
<1>4. /\ Cardinality(H \ {r}) = IF r \in H THEN Cardinality(H) - 1 ELSE Cardinality(H)
      /\ Cardinality(G \ {r}) = IF r \in G THEN Cardinality(G) - 1 ELSE Cardinality(G)
  BY <1>2, FS_RemoveElement
<1>5. Cardinality(H) \in Nat /\ Cardinality(G) \in Nat
  BY <1>2, FS_CardinalityType
<1>6. (r \in H <=> Holds(req[r], pool)) /\ (r \in G <=> Holds(req'[r], pool))
  BY <1>1
<1>7. free[pool] \in Nat /\ free'[pool] \in Nat /\ Permits[pool] \in Nat
  BY DEF IInv, TypeOK
<1>8. free[pool] + Cardinality(H) = Permits[pool]
  BY DEF PermitsConserved
<1>9. free'[pool] + (IF r \in G THEN 1 ELSE 0) = free[pool] + (IF r \in H THEN 1 ELSE 0)
  BY <1>6 DEF Held
<1> HIDE DEF H, G
<1> QED
  BY <1>3, <1>4, <1>5, <1>7, <1>8, <1>9 DEF G

\* Taking a permit lowers one pool by one, and giving it back raises it.
LEMMA PoolFacts ==
  ASSUME TypeOK, NEW p \in Pools
  PROVE  /\ \A pool \in Pools : free[pool] \in Nat
         /\ Acquire(p)[p] = free[p] - 1 /\ Release(p)[p] = free[p] + 1
         /\ \A pool \in Pools \ {p} : /\ Acquire(p)[pool] = free[pool]
                                      /\ Release(p)[pool] = free[pool]
  BY DEF TypeOK, Acquire, Release

\* A step of one slot that keeps, takes or gives back a permit with the change
\* of what the slot holds.
LEMMA Exchange ==
  ASSUME TypeOK, NEW f, NEW g,
         \/ UNCHANGED free /\ \A pool \in Pools : Holds(g, pool) <=> Holds(f, pool)
         \/ \E p \in Pools :
              /\ free' = Acquire(p) /\ Holds(g, p) /\ ~ Holds(f, p)
              /\ \A pool \in Pools \ {p} : Holds(g, pool) <=> Holds(f, pool)
         \/ \E p \in Pools :
              /\ free' = Release(p) /\ ~ Holds(g, p) /\ Holds(f, p)
              /\ \A pool \in Pools \ {p} : Holds(g, pool) <=> Holds(f, pool)
  PROVE  \A pool \in Pools : free'[pool] + Held(g, pool) = free[pool] + Held(f, pool)
<1>1. CASE UNCHANGED free /\ \A pool \in Pools : Holds(g, pool) <=> Holds(f, pool)
  BY <1>1 DEF Held
<1>2. ASSUME NEW p \in Pools, free' = Acquire(p), Holds(g, p), ~ Holds(f, p),
             \A pool \in Pools \ {p} : Holds(g, pool) <=> Holds(f, pool)
      PROVE  \A pool \in Pools : free'[pool] + Held(g, pool) = free[pool] + Held(f, pool)
  <2> TAKE pool \in Pools
  <2>1. CASE pool = p
    BY <1>2, <2>1, PoolFacts DEF Held
  <2>2. CASE pool # p
    BY <1>2, <2>2, PoolFacts DEF Held
  <2> QED
    BY <2>1, <2>2
<1>3. ASSUME NEW p \in Pools, free' = Release(p), ~ Holds(g, p), Holds(f, p),
             \A pool \in Pools \ {p} : Holds(g, pool) <=> Holds(f, pool)
      PROVE  \A pool \in Pools : free'[pool] + Held(g, pool) = free[pool] + Held(f, pool)
  <2> TAKE pool \in Pools
  <2>1. CASE pool = p
    BY <1>3, <2>1, PoolFacts DEF Held
  <2>2. CASE pool # p
    BY <1>3, <2>2, PoolFacts DEF Held
  <2> QED
    BY <2>1, <2>2
<1> QED
  BY <1>1, <1>2, <1>3

\* What a request holds at each point: nothing, the permit of its worker, or the
\* one its download opened with.
LEMMA HoldsFacts ==
  ASSUME NEW f, NEW pool \in Pools, f.pc \in Pcs, Fits(f)
  PROVE  /\ f.pc \in {"idle", "lookup", "relookup"} => ~ Holds(f, pool)
         /\ f.pc = "check" => (Holds(f, pool) <=> pool = "check")
         /\ f.pc = "browse" => (Holds(f, pool) <=> pool = "browse")
         /\ f.pc \in {"open", "wait", "save", "stream"} =>
               (Holds(f, pool) <=> f.op \in Downloads /\ pool = PoolOf(f.op))
  BY DEF Holds, Fits, PoolOf

\* The pools of downloads and of the rest.
LEMMA PoolFits ==
  ASSUME NEW op PROVE /\ PoolOf(op) \in Pools
                      /\ PoolOf(op) = "browse" <=> op \notin Downloads
  BY DEF PoolOf

\* Every step of one request conserves the permits.
Settles(r) ==
    /\ \A q \in Slots \ {r} : req'[q] = req[q]
    /\ \/ UNCHANGED free
          /\ \A pool \in Pools : Holds(req'[r], pool) <=> Holds(req[r], pool)
       \/ \E p \in Pools :
            /\ free' = Acquire(p) /\ Holds(req'[r], p) /\ ~ Holds(req[r], p)
            /\ \A pool \in Pools \ {p} : Holds(req'[r], pool) <=> Holds(req[r], pool)
       \/ \E p \in Pools :
            /\ free' = Release(p) /\ ~ Holds(req'[r], p) /\ Holds(req[r], p)
            /\ \A pool \in Pools \ {p} : Holds(req'[r], pool) <=> Holds(req[r], pool)

\* A request that ends gives back what it held.
LEMMA Reply_Settles ==
  ASSUME IInv, NEW r \in Slots, req' = Reply(r),
         \/ UNCHANGED free /\ \A pool \in Pools : ~ Holds(req[r], pool)
         \/ \E p \in Pools : free' = Release(p)
                /\ \A pool \in Pools : Holds(req[r], pool) <=> pool = p
  PROVE  Settles(r)
<1>1. req'[r].pc = "idle" /\ \A q \in Slots \ {r} : req'[q] = req[q]
  BY ReplyFacts DEF IInv
<1>2. \A pool \in Pools : ~ Holds(req'[r], pool)
  BY <1>1 DEF Holds
<1> QED
  BY <1>1, <1>2 DEF Settles

\* The requests that begin and the lookups.
LEMMA Begin_Settles ==
  ASSUME IInv, IInv', NEW r \in Slots,
         Call(r) \/ LookupFails(r) \/ MetaLocked(r) \/ StartWorker(r) \/ Unlock(r)
  PROVE  Settles(r)
<1>1. req[r].pc \in {"idle", "lookup"} /\ Fits(req[r])
  BY DEF Call, CreateCall, OperatorCall, GuestCall, LookupFails, MetaLocked,
         StartWorker, Unlock, IInv, Inv, OpInv
<1>2. \A pool \in Pools : ~ Holds(req[r], pool)
  BY <1>1, HoldsFacts
<1>3. ASSUME req' = Reply(r), UNCHANGED free PROVE Settles(r)
  BY <1>2, <1>3, Reply_Settles
<1>4. CASE CreateCall(r) \/ OperatorCall(r)
  <2>1. PICK m : /\ req' = [req EXCEPT ![r] = m] /\ m.op \in OperatorOps
                 /\ m.pc = "wait"
    <3>1. CASE CreateCall(r)
      <4>1. PICK s \in Shares, protected \in BOOLEAN, cap \in Caps, expires \in Expiries :
               req' = [req EXCEPT ![r] =
                 [Idle EXCEPT !.op = "create", !.share = s, !.pc = "wait",
                              !.copy = [protected |-> protected, cap |-> cap,
                                        expires |-> expires, revoked |-> FALSE,
                                        hidden |-> FALSE, downloads |-> 0]]]
        BY <3>1 DEF CreateCall
      <4> DEFINE copy == [protected |-> protected, cap |-> cap, expires |-> expires,
                          revoked |-> FALSE, hidden |-> FALSE, downloads |-> 0]
                 m == [Idle EXCEPT !.op = "create", !.share = s, !.pc = "wait", !.copy = copy]
      <4>2. req' = [req EXCEPT ![r] = m]
        BY <4>1
      <4> HIDE DEF copy
      <4>3. m.op = "create" /\ m.pc = "wait"
        BY IdleType DEF Requests
      <4> QED
        BY <4>2, <4>3
    <3>2. CASE OperatorCall(r)
      <4>1. PICK op \in {"revoke", "remove"}, s \in Shares :
               req' = [req EXCEPT ![r] = [Idle EXCEPT !.op = op, !.share = s, !.pc = "wait"]]
        BY <3>2 DEF OperatorCall
      <4> DEFINE m == [Idle EXCEPT !.op = op, !.share = s, !.pc = "wait"]
      <4>2. m.op = op /\ m.pc = "wait"
        BY IdleType DEF Requests
      <4> QED
        BY <4>1, <4>2
    <3> QED
      BY <1>4, <3>1, <3>2
  <2>2. req'[r] = m /\ \A q \in Slots \ {r} : req'[q] = req[q]
    BY <2>1 DEF IInv, TypeOK
  <2>3. \A pool \in Pools : ~ Holds(req'[r], pool)
    BY <2>1, <2>2 DEF Holds
  <2> QED
    BY <1>2, <1>4, <2>2, <2>3 DEF Settles, CreateCall, OperatorCall
<1>5. CASE GuestCall(r)
  <2>1. PICK op \in GuestOps, s \in Shares :
           req' = [req EXCEPT ![r] = [Idle EXCEPT !.op = op, !.share = s,
                                                  !.pc = "lookup", !.now = clock]]
    BY <1>5 DEF GuestCall
  <2> DEFINE m == [Idle EXCEPT !.op = op, !.share = s, !.pc = "lookup", !.now = clock]
  <2>2. m.pc = "lookup" /\ req' = [req EXCEPT ![r] = m]
    BY <2>1, IdleType DEF Requests
  <2> HIDE DEF m
  <2>3. req'[r] = m /\ \A q \in Slots \ {r} : req'[q] = req[q]
    BY <2>2 DEF IInv, TypeOK
  <2>4. \A pool \in Pools : ~ Holds(req'[r], pool)
    BY <2>2, <2>3 DEF Holds
  <2> QED
    BY <1>2, <1>5, <2>3, <2>4 DEF Settles, GuestCall
<1>6. CASE LookupFails(r)
  BY <1>3, <1>6 DEF LookupFails
<1>7. CASE MetaLocked(r)
  <2>1. CASE req' = [req EXCEPT ![r].pc = "wait", ![r].now = 0]
    <3>1. /\ \A q \in Slots \ {r} : req'[q] = req[q]
          /\ req'[r].pc = "wait" /\ req'[r].op = req[r].op
      BY <2>1, MoveFacts, ZeroTime DEF IInv
    <3>2. \A pool \in Pools : ~ Holds(req'[r], pool)
      BY <1>7, <3>1 DEF Holds, MetaLocked
    <3> QED
      BY <1>2, <1>7, <3>1, <3>2 DEF Settles, MetaLocked
  <2> QED
    BY <1>3, <1>7, <2>1, SMTT(30) DEF MetaLocked, RecordView, Spawn
<1>8. CASE StartWorker(r)
  <2> DEFINE pool0 == PoolOf(req[r].op)
             p == IF pool0 = "browse" THEN "browse" ELSE "open"
  <2>1. /\ req' = [req EXCEPT ![r].pc = p, ![r].now = 0] /\ free' = Acquire(pool0)
        /\ pool0 \in Pools /\ p \in Pcs
        /\ (p = "browse" /\ pool0 = "browse")
           \/ (p = "open" /\ req[r].op \in Downloads)
    BY <1>8, PoolFits DEF StartWorker
  <2> HIDE DEF p
  <2>2. /\ \A q \in Slots \ {r} : req'[q] = req[q]
        /\ req'[r].pc = p /\ req'[r].op = req[r].op
    BY <2>1, MoveFacts, ZeroTime DEF IInv
  <2>3. Fits(req'[r])
    BY DEF IInv, Inv, OpInv
  <2>4. \A pool \in Pools : Holds(req'[r], pool) <=> pool = pool0
    <3>1. CASE p = "browse" /\ pool0 = "browse"
      BY <2>2, <2>3, <3>1, HoldsFacts
    <3>2. CASE p = "open" /\ req[r].op \in Downloads
      BY <2>2, <2>3, <3>2, HoldsFacts
    <3> QED
      BY <2>1, <3>1, <3>2
  <2> HIDE DEF pool0
  <2> QED
    BY <1>2, <2>1, <2>2, <2>4 DEF Settles
<1>9. CASE Unlock(r)
  <2>1. CASE /\ req' = [req EXCEPT ![r].pc = "check", ![r].now = 0]
             /\ free' = Acquire("check")
    <3>1. /\ \A q \in Slots \ {r} : req'[q] = req[q]
          /\ req'[r].pc = "check"
      BY <2>1, MoveFacts, ZeroTime DEF IInv
    <3>2. \A pool \in Pools : Holds(req'[r], pool) <=> pool = "check"
      BY <3>1 DEF Holds
    <3> QED
      BY <1>2, <2>1, <3>1, <3>2 DEF Settles
  <2>2. CASE /\ req' = [req EXCEPT ![r].pc = "relookup", ![r].now = clock]
             /\ UNCHANGED free
    <3>1. /\ \A q \in Slots \ {r} : req'[q] = req[q]
          /\ req'[r].pc = "relookup"
      BY <2>2, MoveFacts DEF IInv, TypeOK
    <3>2. \A pool \in Pools : ~ Holds(req'[r], pool)
      BY <3>1 DEF Holds
    <3> QED
      BY <1>2, <2>2, <3>1, <3>2 DEF Settles
  <2> QED
    BY <1>3, <1>9, <2>1, <2>2 DEF Unlock
<1> QED
  BY <1>4, <1>5, <1>6, <1>7, <1>8, <1>9, SMTT(30) DEF Call

\* Workers that end.
LEMMA Worker_Settles ==
  ASSUME IInv, IInv', NEW r \in Slots,
         CheckEnd(r) \/ Relookup(r) \/ BrowseEnd(r) \/ OpenEnd(r)
  PROVE  Settles(r)
<1>1. req[r].pc \in Pcs /\ Fits(req[r]) /\ Fits(req'[r]) /\ clock \in Times
  BY FieldFacts DEF IInv, Inv, OpInv, TypeOK
<1>2. CASE CheckEnd(r)
  <2>1. \A pool \in Pools : Holds(req[r], pool) <=> pool = "check"
    BY <1>2 DEF CheckEnd, Holds
  <2>2. CASE req' = [req EXCEPT ![r].pc = "relookup", ![r].now = clock]
    <3>1. /\ \A q \in Slots \ {r} : req'[q] = req[q]
          /\ req'[r].pc = "relookup"
      BY <1>1, <2>2, MoveFacts DEF IInv
    <3>2. \A pool \in Pools : ~ Holds(req'[r], pool)
      BY <3>1 DEF Holds
    <3> QED
      BY <1>2, <2>1, <3>1, <3>2 DEF Settles, CheckEnd
  <2> QED
    BY <1>2, <2>1, <2>2, Reply_Settles DEF CheckEnd
<1>3. CASE Relookup(r)
  <2>1. \A pool \in Pools : ~ Holds(req[r], pool)
    BY <1>3 DEF Relookup, Holds
  <2>2. CASE req' = Goto(r, "browse") /\ free' = Acquire("browse")
    <3>1. /\ \A q \in Slots \ {r} : req'[q] = req[q]
          /\ req'[r].pc = "browse"
      BY <2>2 DEF Goto, IInv, TypeOK, Requests
    <3>2. \A pool \in Pools : Holds(req'[r], pool) <=> pool = "browse"
      BY <3>1 DEF Holds
    <3> QED
      BY <2>1, <2>2, <3>1, <3>2 DEF Settles
  <2> QED
    BY <1>3, <2>1, <2>2, Reply_Settles DEF Relookup
<1>4. CASE BrowseEnd(r)
  <2>1. \A pool \in Pools : Holds(req[r], pool) <=> pool = "browse"
    BY <1>4 DEF BrowseEnd, Holds
  <2>2. CASE req[r].op = "meta" /\ req' = [req EXCEPT ![r].pc = "wait", ![r].now = 0]
    <3>1. /\ \A q \in Slots \ {r} : req'[q] = req[q]
          /\ req'[r].pc = "wait" /\ req'[r].op = "meta"
      BY <2>2, MoveFacts, ZeroTime DEF IInv
    <3>2. \A pool \in Pools : ~ Holds(req'[r], pool)
      BY <3>1 DEF Holds
    <3> QED
      BY <1>4, <2>1, <3>1, <3>2, SMTT(30) DEF Settles, BrowseEnd
  <2> QED
    BY <1>4, <2>1, <2>2, Reply_Settles DEF BrowseEnd, RecordView, Spawn
<1>5. CASE OpenEnd(r)
  <2>1. req[r].pc = "open" /\ req[r].op \in Downloads
    BY <1>1, <1>5 DEF OpenEnd, Fits
  <2>2. \A pool \in Pools : Holds(req[r], pool) <=> pool = PoolOf(req[r].op)
    BY <1>1, <2>1, HoldsFacts
  <2>3. CASE Spawn(r, clock) /\ UNCHANGED free
    <3>1. /\ \A q \in Slots \ {r} : req'[q] = req[q]
          /\ req'[r].pc = "wait" /\ req'[r].op = req[r].op
      BY <1>1, <2>3, MoveFacts DEF IInv, Spawn
    <3>2. \A pool \in Pools : Holds(req'[r], pool) <=> pool = PoolOf(req[r].op)
      BY <1>1, <2>1, <3>1, HoldsFacts
    <3> QED
      BY <2>2, <2>3, <3>1, <3>2, SMTT(30) DEF Settles
  <2> QED
    BY <1>5, <2>2, <2>3, PoolFits, Reply_Settles DEF OpenEnd
<1> QED
  BY <1>2, <1>3, <1>4, <1>5

\* Tasks, streams and dropped handlers: the permit of a download stays with it
\* to the end of its stream.
LEMMA Task_Settles ==
  ASSUME IInv, IInv', NEW r \in Slots,
         TaskLoad(r) \/ TaskSave(r) \/ StreamEnd(r) \/ Dropped(r)
  PROVE  Settles(r)
<1>1. req[r].pc \in Pcs /\ Fits(req[r]) /\ Fits(req'[r]) /\ req'[r].pc \in Pcs
  BY FieldFacts DEF IInv, Inv, OpInv, TypeOK, Requests
<1>2. req[r].pc \in {"wait", "save", "stream"} =>
        \A pool \in Pools :
           Holds(req[r], pool) <=> req[r].op \in Downloads /\ pool = PoolOf(req[r].op)
  BY <1>1, HoldsFacts
<1>3. ASSUME TaskFails(r), req[r].pc \in {"wait", "save"} PROVE Settles(r)
  BY <1>2, <1>3, PoolFits, Reply_Settles DEF TaskFails
<1>4. ASSUME UNCHANGED free, req'[r].pc \in {"wait", "save", "stream"},
             req[r].pc \in {"wait", "save", "stream"}, req'[r].op = req[r].op,
             \A q \in Slots \ {r} : req'[q] = req[q]
      PROVE  Settles(r)
  <2>1. \A pool \in Pools :
           Holds(req'[r], pool) <=> req[r].op \in Downloads /\ pool = PoolOf(req[r].op)
    BY <1>1, <1>4, HoldsFacts
  <2> QED
    BY <1>2, <1>4, <2>1 DEF Settles
<1>5. CASE TaskLoad(r)
  <2> DEFINE copy == Changed(r, disk[req[r].share])
             m == [req[r] EXCEPT !.pc = "save", !.now = 0, !.copy = copy]
  <2>1. CASE /\ req' = [req EXCEPT ![r].pc = "save", ![r].now = 0, ![r].copy = copy]
             /\ UNCHANGED free
    <3>1. req[r] \in Requests /\ req' = [req EXCEPT ![r] = m]
      BY <2>1 DEF IInv, TypeOK
    <3> HIDE DEF copy
    <3>2. m.pc = "save" /\ m.op = req[r].op
      BY <3>1 DEF Requests
    <3> HIDE DEF m
    <3>3. req'[r] = m /\ \A q \in Slots \ {r} : req'[q] = req[q]
      BY <3>1 DEF IInv, TypeOK
    <3> QED
      BY <1>4, <1>5, <2>1, <3>2, <3>3 DEF TaskLoad
  <2> QED
    BY <1>3, <1>5, <2>1 DEF TaskLoad
<1>6. CASE TaskSave(r)
  <2> DEFINE m == [req[r] EXCEPT !.pc = "stream", !.copy = None]
  <2>1. CASE req' = [req EXCEPT ![r] = m] /\ UNCHANGED free
    <3>1. req[r] \in Requests
      BY DEF IInv, TypeOK
    <3>2. m.pc = "stream" /\ m.op = req[r].op
      BY <3>1 DEF Requests
    <3> HIDE DEF m
    <3>3. req'[r] = m /\ \A q \in Slots \ {r} : req'[q] = req[q]
      BY <2>1 DEF IInv, TypeOK
    <3> QED
      BY <1>4, <1>6, <2>1, <3>2, <3>3 DEF TaskSave
  <2>2. CASE TaskFails(r)
    BY <1>3, <1>6, <2>2 DEF TaskSave
  <2> QED
    BY <1>6, <2>1, <2>2 DEF TaskSave
<1>7. CASE StreamEnd(r)
  <2>1. req[r].op \in Downloads
    BY <1>1, <1>7 DEF StreamEnd, Fits
  <2> QED
    BY <1>2, <1>7, <2>1, PoolFits, Reply_Settles DEF StreamEnd
<1>8. CASE Dropped(r)
  <2>1. CASE req' = [req EXCEPT ![r].live = FALSE] /\ UNCHANGED free
    <3> DEFINE m == [req[r] EXCEPT !.live = FALSE]
    <3>1. req[r] \in Requests /\ req' = [req EXCEPT ![r] = m]
      BY <2>1 DEF IInv, TypeOK
    <3>2. m.pc = req[r].pc /\ m.op = req[r].op
      BY <3>1 DEF Requests
    <3> HIDE DEF m
    <3>3. req'[r] = m /\ \A q \in Slots \ {r} : req'[q] = req[q]
      BY <3>1 DEF IInv, TypeOK
    <3>4. \A pool \in Pools : Holds(req'[r], pool) <=> Holds(req[r], pool)
      BY <3>2, <3>3 DEF Holds
    <3> QED
      BY <2>1, <3>3, <3>4 DEF Settles
  <2>2. CASE /\ ~ Detached(r) /\ req' = Reply(r)
             /\ free' = IF req[r].pc = "stream" THEN Release("file") ELSE free
    <3>1. CASE req[r].pc = "stream"
      <4>1. req[r].op \in Downloads /\ PoolOf(req[r].op) = "file"
        BY <1>1, <2>2, <3>1 DEF Detached, Fits, PoolOf
      <4> QED
        BY <1>2, <2>2, <3>1, <4>1, Reply_Settles
    <3>2. CASE req[r].pc # "stream"
      <4>1. req[r].pc \in {"idle", "lookup", "relookup"}
        BY <1>1, <2>2, <3>2 DEF Detached
      <4>2. \A pool \in Pools : ~ Holds(req[r], pool)
        BY <1>1, <4>1, HoldsFacts
      <4> QED
        BY <2>2, <3>2, <4>2, Reply_Settles
    <3> QED
      BY <3>1, <3>2
  <2> QED
    BY <1>8, <2>1, <2>2 DEF Dropped
<1> QED
  BY <1>5, <1>6, <1>7, <1>8

\* No permit is lost and none is given back too early: the free ones and those in
\* use add up to the size of each semaphore, for any number of requests.
THEOREM PermitsHold == Spec => []PermitsConserved
<1>1. ASSUME \A r \in Slots : req[r].pc = "idle", free = Permits PROVE PermitsConserved
  <2> SUFFICES ASSUME NEW pool \in Pools
               PROVE  free[pool] + Cardinality(Holders(pool)) = Permits[pool]
    BY DEF PermitsConserved
  <2>1. Holders(pool) = {}
    BY <1>1 DEF Holders
  <2>2. Cardinality(Holders(pool)) = 0
    BY <2>1, FS_EmptySet
  <2>3. Permits[pool] \in Nat
    OBVIOUS
  <2> QED
    BY <1>1, <2>2, <2>3
<1>2. Init => PermitsConserved
  BY <1>1, IdleType DEF Init
<1>3. IInv /\ IInv' /\ PermitsConserved /\ [Next]_vars => PermitsConserved'
  <2> SUFFICES ASSUME IInv, IInv', PermitsConserved, [Next]_vars PROVE PermitsConserved'
    OBVIOUS
  <2>1. ASSUME NEW r \in Slots, Settles(r) PROVE PermitsConserved'
    <3>1. \A pool \in Pools :
            free'[pool] + Held(req'[r], pool) = free[pool] + Held(req[r], pool)
      BY <2>1, Exchange DEF Settles, IInv
    <3> QED
      BY <2>1, <3>1, Balance DEF Settles
  <2>2. CASE Restart
    <3>1. free' = Permits /\ \A r \in Slots : req'[r].pc = "idle"
      BY <2>2, IdleType DEF Restart
    <3> SUFFICES ASSUME NEW pool \in Pools
                 PROVE  free'[pool] + Cardinality(Holders(pool)') = Permits[pool]
      BY DEF PermitsConserved
    <3>2. Holders(pool)' = {}
      BY <3>1 DEF Holders
    <3>3. Cardinality(Holders(pool)') = 0
      BY <3>2, FS_EmptySet
    <3>4. Permits[pool] \in Nat
      OBVIOUS
    <3> QED
      BY <3>1, <3>3, <3>4
  <2>3. CASE ClockChanges \/ UNCHANGED vars
    <3>1. UNCHANGED <<req, free>>
      BY <2>3 DEF ClockChanges, vars
    <3> QED
      BY <3>1 DEF PermitsConserved, Holders
  <2> QED
    BY <2>1, <2>2, <2>3, Begin_Settles, Worker_Settles, Task_Settles
    DEF Next, Handle, Work
<1> QED
  BY <1>2, <1>3, Invariance, PTL DEF Spec
=============================================================================
