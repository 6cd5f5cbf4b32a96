----------------------------- MODULE GuestShare -----------------------------
(* Guest shares: the operator's create, revoke and remove, and the public      *)
(* handlers for metadata, browsing, unlocking, downloads and archives           *)
(* (guestshare.rs, the handlers in main.rs, StateDir in state.rs).             *)
(*                                                                           *)
(* Every change of a record is a task of its own that holds state_lock from    *)
(* its load to its save, so that it survives the request that started it.      *)
(* Blocking workers own the semaphore permit they run under.  A step of the    *)
(* model is what a handler, task or worker does between two awaits.            *)
(*                                                                           *)
(* Paths, tokens and passwords are abstracted: a token names its share, a path *)
(* opens or not, a password matches or not.                                    *)
EXTENDS Naturals, Sequences, FiniteSets

CONSTANTS
    Shares,         \* ids of the shares that may be created
    Caps,           \* values of max_downloads a share may be created with
    Expiries,       \* values of expires_at a share may be created with
    Slots,          \* requests that can be under way at a time
    None,
    MaxClock,       \* bound of the clock
    MaxCount,       \* where the u32 counter saturates
    GrantTtl,       \* GRANT_TTL_SECS
    Permits         \* the size of each semaphore

Pools == {"check", "browse", "file", "archive"}

\* A cap has the type of the counter it limits.
ASSUME SharesAssumption ==
    /\ Caps \subseteq (0..MaxCount) \cup {None}
    /\ Expiries \subseteq Nat \cup {None}
ASSUME LimitsAssumption ==
    /\ {MaxClock, MaxCount, GrantTtl} \subseteq Nat
    /\ Permits \in [Pools -> Nat \ {0}]
    /\ IsFiniteSet(Slots)

VARIABLES
    clock,      \* the wall clock
    disk,       \* the record file of each share, or None
    queue,      \* state_lock: its holder and, behind it, the tasks that wait
    req,        \* the request in each slot, with the task or worker it started
    free,       \* permits left in each semaphore
    grants,     \* grants: the last expiry of one for each share, 0 for none
    served      \* history: responses that began to send contents

memory == <<queue, req, free, grants>>
vars == <<clock, disk, memory, served>>

Times == 0..MaxClock
Records == [protected : BOOLEAN, cap : Caps, expires : Expiries, revoked : BOOLEAN,
            hidden : BOOLEAN, downloads : 0..MaxCount]

ASSUME NoneAssumption == None \notin Nat \cup Records

OperatorOps == {"create", "revoke", "remove"}
Downloads == {"download", "zip"}
GuestOps == {"meta", "browse", "unlock"} \cup Downloads
Pcs == {"idle", "lookup", "check", "relookup", "browse", "open", "wait", "save",
        "stream"}

\* now is the clock reading the handler passes on, copy the record its task is
\* about to save, live whether the handler has not been dropped.
Requests == [op : OperatorOps \cup GuestOps \cup {None}, share : Shares \cup {None},
             pc : Pcs, now : Times, copy : Records \cup {None},
             live : BOOLEAN]
Idle == [op |-> None, share |-> None, pc |-> "idle", now |-> 0,
         copy |-> None, live |-> TRUE]

TypeOK ==
    /\ clock \in Times
    /\ disk \in [Shares -> Records \cup {None}]
    /\ queue \in Seq(Slots)
    /\ req \in [Slots -> Requests]
    /\ free \in [Pools -> Nat]
    /\ grants \in [Shares -> 0..(MaxClock + GrantTtl)]
    /\ served \in [Shares -> Nat]

Init ==
    /\ clock = 0
    /\ disk = [s \in Shares |-> None]
    /\ queue = <<>>
    /\ req = [r \in Slots |-> Idle]
    /\ free = Permits
    /\ grants = [s \in Shares |-> 0]
    /\ served = [s \in Shares |-> 0]

-----------------------------------------------------------------------------
(* Handlers, tasks and workers                                               *)

Present(s) == disk[s] # None

\* is_accessible
Accessible(record, now) ==
    /\ ~record.revoked
    /\ record.expires # None => now < record.expires
    /\ record.cap # None => record.downloads < record.cap

\* lookup_active: reads the file without the lock.
Active(r) == Present(req[r].share) /\ Accessible(disk[req[r].share], req[r].now)
Locked(r) == disk[req[r].share].protected

Goto(r, pc) == [req EXCEPT ![r].pc = pc]
Reply(r) == [req EXCEPT ![r] = Idle]
Acquire(pool) == [free EXCEPT ![pool] = @ - 1]
Release(pool) == [free EXCEPT ![pool] = @ + 1]
PoolOf(op) ==
    CASE op = "zip" -> "archive"
      [] op = "download" -> "file"
      [] OTHER -> "browse"

\* mutate_state: a task of its own queues for the lock, which is fair.
Spawn(r, now) ==
    /\ queue' = Append(queue, r)
    /\ req' = [req EXCEPT ![r].pc = "wait", ![r].now = now]

\* retain(): what a reading of the clock leaves of the grants.
Retained(now) == [s \in Shares |-> IF grants[s] > now THEN grants[s] ELSE 0]

\* share_is_unlocked: a share without a password, or a live grant for it.
Unlocked(r) == Locked(r) => grants[req[r].share] > req[r].now

\* check_grant drops expired grants, when the guest sends a cookie at all.
SendsCookie(r) ==
    grants' \in IF Locked(r) THEN {grants, Retained(req[r].now)} ELSE {grants}

RecordView_Unlocked(r) ==
    /\ req' = Goto(r, "wait")
    /\ queue' = <<r>> \o queue

\* record_view: counts the view only if the lock is free, so that no view ever
\* waits in front of a revocation.
RecordView(r) ==
    IF queue = <<>> THEN Spawn(r, 0)
    ELSE req' = Reply(r) /\ UNCHANGED queue

\* guestshare.create: the record is complete before the task is spawned; ids
\* are fresh, so a share is created once.
CreateCall(r) ==
    /\ req[r].pc = "idle"
    /\ \E s \in Shares, protected \in BOOLEAN, cap \in Caps, expires \in Expiries :
         /\ ~Present(s) /\ \A q \in Slots : req[q].op = "create" => req[q].share # s
         /\ req' = [req EXCEPT ![r] =
               [Idle EXCEPT !.op = "create", !.share = s, !.pc = "wait",
                            !.copy = [protected |-> protected, cap |-> cap,
                                      expires |-> expires, revoked |-> FALSE,
                                      hidden |-> FALSE, downloads |-> 0]]]
         /\ queue' = Append(queue, r)
    /\ UNCHANGED <<clock, disk, free, grants, served>>

\* guestshare.revoke and remove.
OperatorCall(r) ==
    /\ req[r].pc = "idle"
    /\ \E op \in {"revoke", "remove"}, s \in Shares :
         /\ req' = [req EXCEPT ![r] = [Idle EXCEPT !.op = op, !.share = s, !.pc = "wait"]]
         /\ queue' = Append(queue, r)
    /\ UNCHANGED <<clock, disk, free, grants, served>>

\* A guest's request: every handler reads the clock first.
GuestCall(r) ==
    /\ req[r].pc = "idle"
    /\ \E op \in GuestOps, s \in Shares :
         req' = [req EXCEPT ![r] = [Idle EXCEPT !.op = op, !.share = s, !.pc = "lookup",
                                                !.now = clock]]
    /\ UNCHANGED <<clock, disk, queue, free, grants, served>>

\* A share that is not available, a path that is refused, a missing grant or
\* no permit left: all get the same kind of answer.
LookupFails(r) ==
    /\ req[r].pc = "lookup"
    /\ req[r].op # "unlock"
    /\ Active(r) => \/ req[r].op \in {"browse", "download"}
                    \/ req[r].op # "meta" /\ Locked(r)
                    \/ Unlocked(r) /\ free[PoolOf(req[r].op)] = 0
    /\ IF Active(r) THEN SendsCookie(r) ELSE UNCHANGED grants
    /\ req' = Reply(r)
    /\ UNCHANGED <<clock, disk, queue, free, served>>

\* meta() of a share that stays locked opens nothing; the view is counted.
MetaLocked(r) ==
    /\ req[r].pc = "lookup"
    /\ req[r].op = "meta"
    /\ Active(r)
    /\ Locked(r)
    /\ SendsCookie(r)
    /\ RecordView(r)
    /\ UNCHANGED <<clock, disk, free, served>>

\* meta(), browse_directory(), open_download() and prepare_archive() take a
\* permit and hand it to a blocking worker.
StartWorker(r) ==
    LET pool == PoolOf(req[r].op) IN
    /\ req[r].pc = "lookup"
    /\ req[r].op # "unlock"
    /\ Active(r)
    /\ Unlocked(r)
    /\ free[pool] > 0
    /\ free' = Acquire(pool)
    /\ req' = [req EXCEPT ![r].pc = IF pool = "browse" THEN "browse" ELSE "open", ![r].now = 0]
    /\ grants' = IF Locked(r) THEN Retained(req[r].now) ELSE grants
    /\ UNCHANGED <<clock, disk, queue, served>>

\* unlock: a limiter may refuse the attempt, a password needs a worker with a
\* permit, and a share without one matches at once.
Unlock(r) ==
    /\ req[r].pc = "lookup"
    /\ req[r].op = "unlock"
    /\ \/ /\ req' = Reply(r)
          /\ UNCHANGED free
       \/ /\ Active(r) /\ Locked(r) /\ free["check"] > 0
          /\ req' = [req EXCEPT ![r].pc = "check", ![r].now = 0]
          /\ free' = Acquire("check")
       \/ /\ Active(r) /\ ~Locked(r)
          /\ req' = [req EXCEPT ![r].pc = "relookup", ![r].now = clock]
          /\ UNCHANGED free
    /\ UNCHANGED <<clock, disk, queue, grants, served>>

\* The password worker ends, with a match or without.
CheckEnd(r) ==
    /\ req[r].pc = "check"
    /\ free' = Release("check")
    /\ \/ /\ req[r].live
          /\ req' = [req EXCEPT ![r].pc = "relookup", ![r].now = clock]
       \/ req' = Reply(r)
    /\ UNCHANGED <<clock, disk, queue, grants, served>>

\* The share may have been revoked or used up while the password was checked.
Relookup(r) ==
    /\ req[r].pc = "relookup"
    /\ \/ /\ ~Active(r) \/ free["browse"] = 0
          /\ req' = Reply(r)
          /\ UNCHANGED free
       \/ /\ Active(r) /\ free["browse"] > 0
          /\ req' = Goto(r, "browse")
          /\ free' = Acquire("browse")
    /\ UNCHANGED <<clock, disk, queue, grants, served>>

\* The browsing worker ends; unlock then mints a grant and meta counts a view.
BrowseEnd(r) ==
    /\ req[r].pc = "browse"
    /\ free' = Release("browse")
    /\ \/ /\ req[r].op = "browse" \/ ~req[r].live
          /\ req' = Reply(r)
          /\ UNCHANGED <<queue, grants>>
       \/ /\ req[r].op = "unlock" /\ req[r].live
          /\ grants' = [Retained(req[r].now) EXCEPT ![req[r].share] =
                           IF @ > req[r].now + GrantTtl THEN @ ELSE req[r].now + GrantTtl]
          /\ req' = Reply(r)
          /\ UNCHANGED queue
       \/ /\ req[r].op = "meta" /\ req[r].live
          /\ RecordView(r)
          /\ UNCHANGED grants
    /\ UNCHANGED <<clock, disk, served>>

\* The opening worker ends.  A download that found its file is registered with
\* a new reading of the clock, and the permit goes with the open descriptors; a
\* HEAD request stops here, as one that found nothing does.
OpenEnd(r) ==
    /\ req[r].pc = "open"
    /\ \/ /\ req[r].op \in Downloads /\ req[r].live
          /\ Spawn(r, clock)
          /\ UNCHANGED free
       \/ /\ req' = Reply(r)
          /\ free' = Release(PoolOf(req[r].op))
          /\ UNCHANGED queue
    /\ UNCHANGED <<clock, disk, grants, served>>

Bump(n) == IF n < MaxCount THEN n + 1 ELSE n

Skips_Uncounted(r, record) ==
    \/ record = None
    \/ req[r].op = "revoke" /\ record.revoked
    \/ req[r].op = "remove" /\ (record.hidden \/ ~record.revoked)

\* The task finds nothing to save: no record, already revoked or removed, not
\* revoked before it is removed, or not accessible any more.
Skips(r, record) ==
    \/ record = None
    \/ req[r].op = "revoke" /\ record.revoked
    \/ req[r].op = "remove" /\ (record.hidden \/ ~record.revoked)
    \/ req[r].op \in Downloads /\ ~Accessible(record, req[r].now)

\* What a task saves; the view counter is left out, the save of a view is not.
Changed(r, record) ==
    CASE req[r].op = "create" -> req[r].copy
      [] req[r].op = "revoke" -> [record EXCEPT !.revoked = TRUE]
      [] req[r].op = "remove" -> [record EXCEPT !.hidden = TRUE]
      [] req[r].op \in Downloads -> [record EXCEPT !.downloads = Bump(@)]
      [] OTHER -> record

TaskFails_KeepsGuard(r) ==
    /\ queue' = IF req[r].pc = "wait" THEN queue ELSE Tail(queue)
    /\ req' = Reply(r)
    /\ free' = IF req[r].op \in Downloads THEN Release(PoolOf(req[r].op)) ELSE free

\* The task at the head of the queue drops its guard, and what it held for a
\* download it refused.
TaskFails(r) ==
    /\ queue' = Tail(queue)
    /\ req' = Reply(r)
    /\ free' = IF req[r].op \in Downloads THEN Release(PoolOf(req[r].op)) ELSE free

\* The task at the head of the queue has the lock and loads the record.
TaskLoad(r) ==
    LET record == disk[req[r].share] IN
    /\ req[r].pc = "wait"
    /\ Head(queue) = r
    /\ IF req[r].op # "create" /\ Skips(r, record)
       THEN TaskFails(r)
       ELSE /\ req' = [req EXCEPT ![r].pc = "save", ![r].now = 0, ![r].copy = Changed(r, record)]
            /\ UNCHANGED <<queue, free>>
    /\ UNCHANGED <<clock, disk, grants, served>>

\* StateDir::save replaces the file by a rename, or fails before it.  The
\* registered download begins to stream if its handler is still there.
TaskSave(r) ==
    LET s == req[r].share IN
    /\ req[r].pc = "save"
    /\ \/ /\ TaskFails(r)
          /\ UNCHANGED <<disk, served>>
       \/ /\ disk' = [disk EXCEPT ![s] = req[r].copy]
          /\ req[r].op \notin Downloads \/ ~req[r].live
          /\ TaskFails(r)
          /\ UNCHANGED served
       \/ /\ disk' = [disk EXCEPT ![s] = req[r].copy]
          /\ req[r].op \in Downloads /\ req[r].live
          /\ queue' = Tail(queue)
          /\ req' = [req EXCEPT ![r] = [@ EXCEPT !.pc = "stream", !.copy = None]]
          /\ served' = IF req[r].copy.cap = None THEN served
                       ELSE [served EXCEPT ![s] = @ + 1]
          /\ UNCHANGED free
    /\ UNCHANGED <<clock, grants>>

\* A file stream ends with its body, whole or cut short; an archive when its
\* worker is done, has failed, timed out or seen that the reader is gone.
StreamEnd(r) ==
    /\ req[r].pc = "stream"
    /\ req' = Reply(r)
    /\ free' = Release(PoolOf(req[r].op))
    /\ UNCHANGED <<clock, disk, queue, grants, served>>

\* What goes on without the handler: blocking workers, spawned tasks and the
\* producer of an archive.
Detached(r) ==
    \/ req[r].pc \in {"check", "browse", "open", "wait", "save"}
    \/ req[r].pc = "stream" /\ req[r].op = "zip"

Dropped_FreesPermit(r) ==
    /\ req[r].pc # "idle" /\ req[r].live
    /\ \/ Detached(r) /\ req' = [req EXCEPT ![r].live = FALSE]
       \/ ~Detached(r) /\ req' = Reply(r)
    /\ free' = IF req[r].pc = "check" THEN Release("check")
               ELSE IF req[r].pc = "stream" THEN Release(PoolOf(req[r].op)) ELSE free
    /\ UNCHANGED <<clock, disk, queue, grants, served>>

\* The client goes away and the handler's future is dropped at its await.
Dropped(r) ==
    /\ req[r].pc # "idle" /\ req[r].live
    /\ \/ /\ Detached(r)
          /\ req' = [req EXCEPT ![r].live = FALSE]
          /\ UNCHANGED free
       \/ /\ ~Detached(r)
          /\ req' = Reply(r)
          /\ free' = IF req[r].pc = "stream" THEN Release("file") ELSE free
    /\ UNCHANGED <<clock, disk, queue, grants, served>>

\* The engine restarts: only the files are left.
Restart ==
    /\ queue' = <<>>
    /\ req' = [r \in Slots |-> Idle]
    /\ free' = Permits
    /\ grants' = [s \in Shares |-> 0]
    /\ UNCHANGED <<clock, disk, served>>

\* Time passes, or the clock is set.
ClockChanges ==
    /\ clock' \in Times \ {clock}
    /\ UNCHANGED <<disk, memory, served>>

Call(r) == CreateCall(r) \/ OperatorCall(r) \/ GuestCall(r)

Handle(r) ==
    \/ LookupFails(r) \/ MetaLocked(r) \/ StartWorker(r) \/ Unlock(r)
    \/ Relookup(r)

Work(r) == CheckEnd(r) \/ BrowseEnd(r) \/ OpenEnd(r) \/ TaskLoad(r) \/ TaskSave(r)

Next ==
    \/ \E r \in Slots :
         Call(r) \/ Handle(r) \/ Work(r) \/ StreamEnd(r) \/ Dropped(r)
    \/ Restart \/ ClockChanges

Spec == Init /\ [][Next]_vars

\* Workers and tasks run to their end: they read local files, the lock is
\* first come first served, and an archive has MAX_ARCHIVE_DURATION_SECS.  A
\* file stream may last as long as its client wants.
Fairness ==
    \A r \in Slots :
        WF_vars(Work(r)) /\ WF_vars(req[r].op = "zip" /\ StreamEnd(r))

LiveSpec == Spec /\ Fairness

-----------------------------------------------------------------------------
(* Properties                                                                *)

\* A share never serves more downloads than it was created for, however many
\* requests passed the lookup together, were dropped, or met a restart.
CapKept ==
    \A s \in Shares : Present(s) /\ disk[s].cap # None => served[s] <= disk[s].cap

\* A revocation is final: no view, download or removal that was under way
\* brings the share back, and none is counted after it.
RevokeFinal ==
    [][\A s \in Shares : Present(s) /\ disk[s].revoked =>
          /\ disk'[s] # None
          /\ disk'[s].revoked
          /\ disk'[s].downloads = disk[s].downloads
          /\ disk[s].hidden => disk'[s].hidden]_vars

\* Who holds a permit of a pool: the worker, the registration or the stream.
Holders(pool) ==
    {r \in Slots :
        CASE pool = "check" -> req[r].pc = "check"
          [] pool = "browse" -> req[r].pc = "browse"
          [] OTHER -> /\ req[r].op \in Downloads
                      /\ PoolOf(req[r].op) = pool
                      /\ req[r].pc \in {"open", "wait", "save", "stream"}}

\* No permit is lost and none is given back while its work still runs: not when
\* a client goes away, a registration is refused or a save fails.  So the
\* workers and open descriptors stay within the limits, and come back to zero.
PermitsConserved ==
    \A pool \in Pools : free[pool] + Cardinality(Holders(pool)) = Permits[pool]

\* What was started on behalf of a request ends, whether or not its client
\* waits for it: no revocation, registration, worker or archive hangs.
WorkEnds == \A r \in Slots : Detached(r) ~> ~Detached(r)
=============================================================================
