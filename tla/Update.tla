------------------------------- MODULE Update -------------------------------
(***************************************************************************)
(* System updates: UpdateService (engine/nasty-system/src/update.rs), the  *)
(* transaction script it renders, the transient systemd unit nasty-update  *)
(* the script runs in, the detached unit that finishes an interrupted      *)
(* rollback, and the service recover-generation-flake                      *)
(* (nixos/modules/nasty.nix) that copies the flake pair of the active      *)
(* system to /etc/nixos at boot and at every activation.                   *)
(*                                                                         *)
(* A closure stands for a built system and for the flake.nix and           *)
(* flake.lock it carries; a generation is a numbered profile link to one.  *)
(* Requests overlap at their awaits; any step of a script may fail, be     *)
(* interrupted by the `systemctl stop` of another request or by a reboot,  *)
(* or be cut off by a power loss.                                          *)
(***************************************************************************)
EXTENDS Naturals, FiniteSets, FiniteSetsExt, Functions

CONSTANTS
    Closure,       \* systems that can be built
    First,         \* the system the box runs at first
    MaxGen,        \* bound on generation numbers
    Req,           \* concurrent requests
    MaxEvents      \* bound on requests, deletions, reboots, power losses and failed
                   \* writes of a rollback or of a recovery

ASSUME UpdateAssumption ==
    /\ First \in Closure
    /\ MaxGen \in Nat \ {0}
    /\ MaxEvents \in Nat

VARIABLES
    gens,       \* generation links: number -> closure
    profile,    \* the number the system profile links to
    current,    \* /run/current-system
    booted,     \* /run/booted-system
    entry,      \* the boot loader's default entry
    live,       \* /etc/nixos: the closures its flake.nix and flake.lock are of
    marker,     \* /run/nasty-wrapper-update-in-progress exists
    recovered,  \* the recovery service is active: its last run succeeded
    unit,       \* the unit nasty-update and the script it runs
    detached,   \* units nasty-update-rollback-*
    act,        \* the running switch-to-configuration or recovery service
    script,     \* the generation /tmp/nasty-switch-generation.sh names
    req,        \* the requests
    events,     \* how many of those there were
    power,      \* "on", or "down" once a reboot stops the services
    tainted     \* since the boot, a request stopped a running unit ("stop"), a
                \* transaction began under the marker of another or beside a recovery
                \* that was still writing ("retry"), a rollback could not write a file
                \* and went on ("restore"), a stop came between the removal of the
                \* marker and the flag that records it ("window"), or a recovery failed
                \* and none has succeeded since ("recovery")

disk == <<gens, profile, entry, live>>
run == <<current, booted, marker, recovered>>
engine == <<script, req, events, power, tainted>>
vars == <<disk, run, unit, detached, act, engine>>

-----------------------------------------------------------------------------
Gen == 1 .. MaxGen

Pair(n, l) == [nix |-> n, lock |-> l]

\* LIVE_MUTATED, PROFILE_MUTATED and MARKER_SET of the script are the members of
\* `set`; rollback_ok is `ok` and detach_activation is `detach`.
NoUnit ==
    [st |-> "none", kind |-> "txn", pc |-> "init", old |-> First, gen |-> 1,
     backup |-> Pair(First, First), stage |-> First, set |-> {}, ok |-> TRUE,
     detach |-> FALSE, stopping |-> FALSE]

NoAct == [by |-> "none", to |-> First, pc |-> "done"]

NoReq == [pc |-> "idle", kind |-> "txn", gen |-> 1]

TxnPc == {"init", "build", "mark", "marked", "flagged", "nix", "lock", "installed", "set",
          "act", "health", "unmark", "unmarked", "recover", "cmp"}

\* Where the script is about to set one of its flags.
FlagPc == {"marked", "flagged", "installed", "unmarked"}

RollbackPc == {"rbmark", "rbnix", "rblock", "rbgen", "rbact", "rbwait", "rbend"}

SwitchPc == {"pick", "act"}

FlakePair == [nix : Closure, lock : Closure]

Kind == {"txn", "switch", "rollback"}

Unit ==
    [st : {"none", "running", "failed"}, kind : Kind, pc : TxnPc \cup RollbackPc \cup SwitchPc,
     old : Closure, gen : Gen, backup : FlakePair, stage : Closure,
     set : SUBSET {"live", "profile", "marker"}, ok : BOOLEAN, detach : BOOLEAN,
     stopping : BOOLEAN]

Activation ==
    [by : {"none", "unit", "detached", "service", "boot"}, to : Closure,
     pc : {"entry", "flip", "recover", "lock", "done", "failed"}]

Request == [pc : {"idle", "checked", "stopping", "write", "start"}, kind : Kind, gen : Gen]

\* Every variable holds a value the code can put there.
TypeOK ==
    /\ \E G \in SUBSET Gen : gens \in [G -> Closure]
    /\ profile \in Gen
    /\ {current, booted, entry} \subseteq Closure
    /\ live \in FlakePair
    /\ {marker, recovered} \subseteq BOOLEAN
    /\ unit \in Unit
    /\ detached \subseteq [old : Closure, pc : {"start", "act", "wait"}]
    /\ act \in Activation
    /\ script \in Gen
    /\ req \in [Req -> Request]
    /\ events \in 0 .. MaxEvents /\ power \in {"on", "down"}
    /\ tainted \subseteq {"stop", "retry", "restore", "window", "recovery"}

Init ==
    /\ gens = [g \in {1} |-> First] /\ profile = 1
    /\ current = First /\ booted = First /\ entry = First
    /\ live = Pair(First, First)
    /\ marker = FALSE /\ recovered = TRUE
    /\ unit = NoUnit /\ detached = {} /\ act = NoAct
    /\ script = 1
    /\ req = [r \in Req |-> NoReq]
    /\ events = 0 /\ power = "on" /\ tainted = {}

-----------------------------------------------------------------------------
(* switch-to-configuration and recover-generation-flake                    *)

\* systemd runs the recovery on its own: a script that is killed does not take it
\* along.
Cut == IF act.by = "unit" /\ act.pc = "lock" THEN [act EXCEPT !.by = "service"]
       ELSE IF act.by = "unit" THEN NoAct ELSE act

\* switch-to-configuration makes the boot entry, then activates.
ActEntry ==
    /\ act.pc = "entry"
    /\ entry' = act.to
    /\ act' = [act EXCEPT !.pc = "flip"]
    /\ UNCHANGED <<gens, profile, live, run, unit, detached, engine>>

\* The recovery unit stays active: an activation runs it again when it is not, or
\* for a system with another pair.
ActFlip ==
    /\ act.pc = "flip"
    /\ current' = act.to
    /\ act' = [act EXCEPT !.pc = IF act.to = current /\ recovered THEN "done" ELSE "recover"]
    /\ UNCHANGED <<disk, booted, marker, recovered, unit, detached, engine>>

\* The boot entry cannot be written, or the activation script fails.
ActFails ==
    /\ act.pc \in {"entry", "flip"}
    /\ act' = [act EXCEPT !.pc = "failed"]
    /\ UNCHANGED <<disk, run, unit, detached, engine>>

\* Nobody waits for the recovery of a boot or of a script that was killed.
Unattended == act.by \in {"service", "boot"}

Event == events < MaxEvents /\ events' = events + 1

\* The recovery has run to its end; other units of an activation may fail to start.
\* What an earlier recovery missed is made good, but for a transaction's backup.
RecoverDone(wrote) ==
    /\ act' \in IF Unattended THEN {NoAct}
                ELSE {[act EXCEPT !.pc = "done"], [act EXCEPT !.pc = "failed"]}
    /\ recovered' = TRUE
    /\ tainted' = IF wrote /\ ~(unit.st = "running" /\ unit.kind = "txn")
                  THEN tainted \ {"recovery"} ELSE tainted
    /\ UNCHANGED events

\* A command of the recovery fails, and with it (set -e) the service.
RecoverFails ==
    /\ Event
    /\ act' = IF Unattended THEN NoAct ELSE [act EXCEPT !.pc = "failed"]
    /\ recovered' = FALSE
    /\ tainted' = tainted \cup {"recovery"}

\* The recovery leaves the pair alone while the marker exists or when it is already
\* the active system's; otherwise it copies the pair and moves flake.nix, then
\* flake.lock into place.  It may fail before the first rename ...
Recover ==
    /\ act.pc = "recover"
    /\ \/ marker /\ RecoverDone(FALSE) /\ UNCHANGED live
       \/ ~marker /\ RecoverFails /\ UNCHANGED live
       \/ /\ ~marker /\ live = Pair(current, current)
          /\ RecoverDone(TRUE) /\ UNCHANGED live
       \/ /\ ~marker /\ live # Pair(current, current)
          /\ act' = [act EXCEPT !.pc = "lock"] /\ live' = [live EXCEPT !.nix = current]
          /\ UNCHANGED <<recovered, events, tainted>>
    /\ UNCHANGED <<gens, profile, entry, current, booted, marker, unit, detached, script, req,
                   power>>

\* ... and between the two.
RecoverLock ==
    /\ act.pc = "lock"
    /\ \/ live' = [live EXCEPT !.lock = current] /\ RecoverDone(TRUE)
       \/ RecoverFails /\ UNCHANGED live
    /\ UNCHANGED <<gens, profile, entry, current, booted, marker, unit, detached, script, req,
                   power>>

\* switch-to-configuration takes a lock: a second one fails at once.  It is taken to
\* begin after the last rename of a recovery that a killed script left behind.
Activate(by, to) ==
    act' = IF act.by = "none" THEN [by |-> by, to |-> to, pc |-> "entry"] ELSE act

-----------------------------------------------------------------------------
(* The transaction script                                                  *)

At(kind, pc) == unit.st = "running" /\ unit.kind = kind /\ unit.pc = pc

\* The unit's main process has ended: a success unloads the transient unit, a
\* failure keeps it.
Ended(ok) == IF ok THEN NoUnit ELSE [unit EXCEPT !.st = "failed", !.stopping = FALSE]

\* rollback_transaction: the ERR trap does not detach, the TERM trap does.
RollBack(u, detach) == [u EXCEPT !.pc = "rbmark", !.detach = detach]

\* The profile and the active system must agree before anything is touched; the
\* traps are not set yet.  The live pair is copied to the backup.
TxnBegin ==
    /\ At("txn", "init")
    /\ unit' = IF profile \in DOMAIN gens /\ gens[profile] = current
                 THEN [unit EXCEPT !.pc = "build", !.old = current, !.gen = profile,
                                   !.backup = live]
                 ELSE Ended(FALSE)
    /\ tainted' = tainted \cup {t \in {"retry"} : marker \/ act.by # "none"}
    /\ UNCHANGED <<disk, run, detached, act, script, req, events, power>>

\* The staged flake is updated, built, and compared with the pair in the result.
Build ==
    /\ At("txn", "build")
    /\ \E c \in Closure : unit' = [unit EXCEPT !.pc = "mark", !.stage = c]
    /\ UNCHANGED <<disk, run, detached, act, engine>>

\* The marker is created before the first file is replaced.
Mark ==
    /\ At("txn", "mark")
    /\ marker' = TRUE
    /\ unit' = [unit EXCEPT !.pc = "marked"]
    /\ UNCHANGED <<disk, current, booted, recovered, detached, act, engine>>

\* MARKER_SET, LIVE_MUTATED and PROFILE_MUTATED are set, and MARKER_SET is cleared, by
\* commands of their own.
SetFlag ==
    /\ unit.st = "running" /\ unit.kind = "txn" /\ unit.pc \in FlagPc
    /\ unit' = CASE unit.pc = "marked" ->
                      [unit EXCEPT !.pc = "flagged", !.set = @ \cup {"marker"}]
                 [] unit.pc = "flagged" ->
                      [unit EXCEPT !.pc = "nix", !.set = @ \cup {"live"}]
                 [] unit.pc = "installed" ->
                      [unit EXCEPT !.pc = "set", !.set = @ \cup {"profile"}]
                 [] unit.pc = "unmarked" ->
                      [unit EXCEPT !.pc = "recover", !.set = @ \ {"marker"}]
    /\ UNCHANGED <<disk, run, detached, act, engine>>

\* install_pair "$STAGE", one rename after the other.
InstallNix ==
    /\ At("txn", "nix")
    /\ live' = [live EXCEPT !.nix = unit.stage]
    /\ unit' = [unit EXCEPT !.pc = "lock"]
    /\ UNCHANGED <<gens, profile, entry, run, detached, act, engine>>

InstallLock ==
    /\ At("txn", "lock")
    /\ live' = [live EXCEPT !.lock = unit.stage]
    /\ unit' = [unit EXCEPT !.pc = "installed"]
    /\ UNCHANGED <<gens, profile, entry, run, detached, act, engine>>

\* nix-env reuses the last generation if it is the same closure, and numbers a
\* new one after the last.
Last == IF gens = << >> THEN 0 ELSE Max(DOMAIN gens)

\* Mutant: the generation is made and the profile is not set to it.
SetProfile_LinkOnly ==
    /\ At("txn", "set")
    /\ Last < MaxGen
    /\ gens' = [g \in DOMAIN gens \cup {Last + 1} |->
                  IF g = Last + 1 THEN unit.stage ELSE gens[g]]
    /\ unit' = [unit EXCEPT !.pc = "act"]
    /\ UNCHANGED <<profile, entry, live, run, detached, act, engine>>

SetProfile ==
    /\ At("txn", "set")
    /\ IF Last > 0 /\ gens[Last] = unit.stage
         THEN profile' = Last /\ UNCHANGED gens
         ELSE /\ Last < MaxGen
              /\ profile' = Last + 1
              /\ gens' = [g \in DOMAIN gens \cup {Last + 1} |->
                            IF g = Last + 1 THEN unit.stage ELSE gens[g]]
    /\ unit' = [unit EXCEPT !.pc = "act"]
    /\ UNCHANGED <<entry, live, run, detached, act, engine>>

\* A command of the script fails before, or in, the current step.
TxnFails ==
    /\ unit.st = "running" /\ unit.kind = "txn"
    /\ unit.pc \in TxnPc \ ({"init"} \cup FlagPc)
    /\ unit.pc \in {"act", "recover"} => act.by # "unit"
    /\ unit' = RollBack(unit, FALSE)
    /\ UNCHANGED <<disk, run, detached, act, engine>>

TxnActivate ==
    /\ At("txn", "act")
    /\ act.by = "none"
    /\ Activate("unit", unit.stage)
    /\ UNCHANGED <<disk, run, unit, detached, engine>>

\* systemctl restart recover-generation-flake.service, once the marker is gone.
TxnRestartRecovery ==
    /\ At("txn", "recover")
    /\ act.by = "none"
    /\ act' = [by |-> "unit", to |-> current, pc |-> "recover"]
    /\ UNCHANGED <<disk, run, unit, detached, engine>>

\* The activation or the restart the script waits for has ended.
TxnActed ==
    /\ unit.st = "running" /\ unit.kind = "txn" /\ unit.pc \in {"act", "recover"}
    /\ act.by = "unit" /\ act.pc \in {"done", "failed"}
    /\ act' = NoAct
    /\ unit' = IF act.pc = "failed" THEN RollBack(unit, FALSE)
               ELSE [unit EXCEPT !.pc = IF @ = "act" THEN "health" ELSE "cmp"]
    /\ UNCHANGED <<disk, run, detached, engine>>

\* The engine, Caddy and Tailscale answer within the 60 polls.
Healthy ==
    /\ At("txn", "health")
    /\ unit' = [unit EXCEPT !.pc = "unmark"]
    /\ UNCHANGED <<disk, run, detached, act, engine>>

Unmark ==
    /\ At("txn", "unmark")
    /\ marker' = FALSE
    /\ unit' = [unit EXCEPT !.pc = "unmarked"]
    /\ UNCHANGED <<disk, current, booted, recovered, detached, act, engine>>

\* The live pair is still the staged one: the version is written, the traps are
\* cleared and the unit ends.
Commit ==
    /\ At("txn", "cmp")
    /\ unit' = IF live = Pair(unit.stage, unit.stage) THEN NoUnit
               ELSE RollBack(unit, FALSE)
    /\ UNCHANGED <<disk, run, detached, act, engine>>

-----------------------------------------------------------------------------
(* rollback_transaction                                                    *)

\* Mutant: the marker is not made again.
RbMark_Skipped ==
    /\ At("txn", "rbmark")
    /\ unit' = [unit EXCEPT !.pc = "rbnix"]
    /\ UNCHANGED <<disk, run, detached, act, engine>>

\* A rollback after the marker was removed makes it again.
RbMark ==
    /\ At("txn", "rbmark")
    /\ IF "profile" \in unit.set /\ "marker" \notin unit.set
         THEN \/ /\ marker' = TRUE
                 /\ unit' = [unit EXCEPT !.pc = "rbnix", !.set = @ \cup {"marker"}]
                 /\ UNCHANGED <<events, tainted>>
              \/ /\ Event
                 /\ unit' = [unit EXCEPT !.pc = "rbnix", !.ok = FALSE]
                 /\ tainted' = tainted \cup {"restore"}
                 /\ UNCHANGED marker
         ELSE unit' = [unit EXCEPT !.pc = "rbnix"] /\ UNCHANGED <<marker, events, tainted>>
    /\ UNCHANGED <<disk, current, booted, recovered, detached, act, script, req, power>>

\* Mutant: only the lock file is restored.
RbNix_Skipped ==
    /\ At("txn", "rbnix")
    /\ unit' = [unit EXCEPT !.pc = "rblock"]
    /\ UNCHANGED <<disk, run, detached, act, engine>>

\* install_pair "$BACKUP" under set +e: a failure to restore flake.nix does not
\* stop it and is not its status.
RbNix ==
    /\ At("txn", "rbnix")
    /\ unit' = [unit EXCEPT !.pc = "rblock"]
    /\ IF "live" \in unit.set
         THEN \/ live' = [live EXCEPT !.nix = unit.backup.nix] /\ UNCHANGED <<events, tainted>>
              \/ Event /\ tainted' = tainted \cup {"restore"} /\ UNCHANGED live
         ELSE UNCHANGED <<live, events, tainted>>
    /\ UNCHANGED <<gens, profile, entry, run, detached, act, script, req, power>>

\* The status of install_pair is that of its last rename.
RbLock ==
    /\ At("txn", "rblock")
    /\ LET next == IF "profile" \in unit.set THEN "rbgen" ELSE "rbend"
       IN  IF "live" \in unit.set
             THEN \/ live' = [live EXCEPT !.lock = unit.backup.lock]
                     /\ unit' = [unit EXCEPT !.pc = next]
                  \/ UNCHANGED live
                     /\ unit' = [unit EXCEPT !.pc = next, !.ok = FALSE]
             ELSE unit' = [unit EXCEPT !.pc = next] /\ UNCHANGED live
    /\ UNCHANGED <<gens, profile, entry, run, detached, act, engine>>

\* nix-env --switch-generation "$OLD_GENERATION".
RbGen ==
    /\ At("txn", "rbgen")
    /\ LET to == IF unit.detach THEN "rbend" ELSE "rbact"
       IN  \/ /\ unit.gen \in DOMAIN gens
              /\ profile' = unit.gen
              /\ unit' = [unit EXCEPT !.pc = to]
           \/ /\ UNCHANGED profile
              /\ unit' = [unit EXCEPT !.pc = to, !.ok = FALSE]
    /\ UNCHANGED <<gens, entry, live, run, detached, act, engine>>

\* A trapped signal leaves the activation to a unit of its own, unless something
\* failed already; a system that shuts down starts no unit.
RbDetach ==
    /\ At("txn", "rbend") /\ unit.detach /\ unit.ok /\ "profile" \in unit.set
    /\ power = "on"
    /\ detached' = detached \cup {[old |-> unit.old, pc |-> "start"]}
    /\ unit' = Ended(FALSE)
    /\ UNCHANGED <<disk, run, act, engine>>

RbActivate ==
    /\ At("txn", "rbact") /\ act.by \notin {"unit", "service"}
    /\ Activate("unit", unit.old)
    /\ unit' = IF act.by = "none" THEN unit ELSE [unit EXCEPT !.pc = "rbend", !.ok = FALSE]
    /\ UNCHANGED <<disk, run, detached, engine>>

RbActed ==
    /\ At("txn", "rbact") /\ act.by = "unit" /\ act.pc \in {"done", "failed"}
    /\ act' = NoAct
    /\ unit' = IF act.pc = "done" /\ unit.ok THEN [unit EXCEPT !.pc = "rbwait"]
               ELSE [unit EXCEPT !.pc = "rbend", !.ok = FALSE]
    /\ UNCHANGED <<disk, run, detached, engine>>

\* wait_for_previous_tailscale.
RbWait ==
    /\ At("txn", "rbwait")
    /\ \E back \in BOOLEAN : unit' = [unit EXCEPT !.pc = "rbend", !.ok = back]
    /\ UNCHANGED <<disk, run, detached, act, engine>>

\* Mutant: the marker is removed also after a rollback that failed.
RbEnd_AlwaysUnmarks ==
    /\ At("txn", "rbend")
    /\ marker' = (marker /\ "marker" \notin unit.set)
    /\ unit' = Ended(FALSE)
    /\ UNCHANGED <<disk, current, booted, recovered, detached, act, engine>>

\* The marker goes only if all went well; a detached unit that could not be started
\* counts as a failure, and so does a marker that cannot be removed.
RbEnd ==
    /\ At("txn", "rbend")
    /\ LET left == unit.detach /\ "profile" \in unit.set
           unmarks == "marker" \in unit.set /\ unit.ok /\ ~left
       IN  \/ /\ marker' = (marker /\ ~unmarks)
              /\ unit' = [Ended(FALSE) EXCEPT !.ok = unit.ok /\ ~left]
           \/ /\ unmarks
              /\ unit' = [Ended(FALSE) EXCEPT !.ok = FALSE] /\ UNCHANGED marker
    /\ UNCHANGED <<disk, current, booted, recovered, detached, act, engine>>

-----------------------------------------------------------------------------
(* The detached rollback                                                   *)

Moved(d, pc) == (detached \ {d}) \cup {[d EXCEPT !.pc = pc]}

DetachedActivate(d) ==
    /\ d.pc = "start" /\ act.by # "service"
    /\ Activate("detached", d.old)
    /\ detached' = IF act.by = "none" THEN Moved(d, "act") ELSE detached \ {d}
    /\ UNCHANGED <<disk, run, unit, engine>>

DetachedActed(d) ==
    /\ d.pc = "act" /\ act.by = "detached" /\ act.pc \in {"done", "failed"}
    /\ act' = NoAct
    /\ detached' = IF act.pc = "done" THEN Moved(d, "wait") ELSE detached \ {d}
    /\ UNCHANGED <<disk, run, unit, engine>>

\* Tailscale is back, and the marker, whoever made it, is removed; or it is not
\* back, and the marker stays.
DetachedEnd(d) ==
    /\ d.pc = "wait"
    /\ detached' = detached \ {d}
    /\ marker' \in {FALSE, marker}
    /\ UNCHANGED <<disk, current, booted, recovered, unit, act, engine>>

-----------------------------------------------------------------------------
(* The scripts of switch_generation and rollback                           *)

\* The script the unit runs is the one the fixed path holds when bash opens it.
\* nixos-rebuild --rollback takes the generation before the profile's.
Pick ==
    /\ unit.st = "running" /\ unit.pc = "pick"
    /\ \/ /\ unit.kind = "switch" /\ script \in DOMAIN gens
          /\ profile' = script
          /\ unit' = [unit EXCEPT !.pc = "act"]
       \/ /\ unit.kind = "rollback" /\ \E g \in DOMAIN gens : g < profile
          /\ profile' = Max({g \in DOMAIN gens : g < profile})
          /\ unit' = [unit EXCEPT !.pc = "act"]
       \/ UNCHANGED profile /\ unit' = Ended(FALSE)
    /\ UNCHANGED <<gens, entry, live, run, detached, act, engine>>

SwitchActivate ==
    /\ unit.st = "running" /\ unit.kind # "txn" /\ unit.pc = "act"
    /\ act.by \notin {"unit", "service"}
    /\ IF profile \in DOMAIN gens /\ act.by = "none"
         THEN Activate("unit", gens[profile]) /\ UNCHANGED unit
         ELSE unit' = Ended(FALSE) /\ UNCHANGED act
    /\ UNCHANGED <<disk, run, detached, engine>>

SwitchActed ==
    /\ unit.st = "running" /\ unit.kind # "txn"
    /\ act.by = "unit" /\ act.pc \in {"done", "failed"}
    /\ act' = NoAct
    /\ unit' = Ended(act.pc = "done")
    /\ UNCHANGED <<disk, run, detached, engine>>

-----------------------------------------------------------------------------
(* UpdateService                                                           *)

\* status: a unit that is being stopped is not "running".
StatusRunning == unit.st = "running" /\ ~unit.stopping

\* apply, upgrade_tagged_release, version_switch, switch_generation and rollback
\* refuse a request while the unit runs; a generation must exist.  The engine starts
\* after the boot's recovery.
Check(r) ==
    /\ Event
    /\ power = "on" /\ act.by # "boot" /\ req[r].pc = "idle"
    /\ ~StatusRunning
    /\ \E k \in Kind, g \in Gen :
         /\ k = "switch" => g \in DOMAIN gens
         /\ k # "switch" => g = 1
         /\ req' = [req EXCEPT ![r] = [pc |-> "checked", kind |-> k, gen |-> g]]
    /\ UNCHANGED <<disk, run, unit, detached, act, script, power, tainted>>

\* TERM to a running unit.  A script without traps, one that has not set them yet and
\* one that rolls back (they are cleared) die; the others roll back, detached if the
\* signal is handled before the failure of the command it killed.
Terminated ==
    IF unit.kind = "txn" /\ unit.pc \in TxnPc \ {"init"}
      THEN {RollBack([unit EXCEPT !.stopping = TRUE], d) : d \in BOOLEAN}
      ELSE {Ended(FALSE)}

\* systemctl reset-failed and systemctl stop.  A failed unit is unloaded; a running
\* one is terminated, and the stop waits for it.
Stop(r) ==
    /\ power = "on" /\ req[r].pc = "checked"
    /\ req' = [req EXCEPT ![r].pc = "stopping"]
    /\ CASE unit.st = "running" /\ ~unit.stopping ->
              /\ unit' \in Terminated
              /\ act' = Cut
              /\ tainted' = tainted \cup {"stop"} \cup {w \in {"window"} : At("txn", "unmarked")}
         [] unit.st = "running" /\ unit.stopping -> UNCHANGED <<unit, act, tainted>>
         [] OTHER -> unit' = NoUnit /\ UNCHANGED <<act, tainted>>
    /\ UNCHANGED <<disk, run, detached, script, events, power>>

\* The stop job is over.
Stopped(r) ==
    /\ power = "on" /\ req[r].pc = "stopping"
    /\ ~(unit.st = "running" /\ unit.stopping)
    /\ req' = [req EXCEPT ![r].pc = IF req[r].kind = "switch" THEN "write" ELSE "start"]
    /\ UNCHANGED <<disk, run, unit, detached, act, script, events, power, tainted>>

\* An update request fails on its input, on GitHub or on the wrapper flake.
GiveUp(r) ==
    /\ power = "on" /\ req[r].kind = "txn" /\ req[r].pc \in {"checked", "stopping"}
    /\ req' = [req EXCEPT ![r] = NoReq]
    /\ UNCHANGED <<disk, run, unit, detached, act, script, events, power, tainted>>

\* systemd kills a unit that has not stopped after its timeout.
StopTimeout ==
    /\ unit.st = "running" /\ unit.stopping
    /\ unit' = Ended(FALSE)
    /\ act' = Cut
    /\ UNCHANGED <<disk, run, detached, engine>>

\* switch_generation writes its script to a fixed path.
WriteScript(r) ==
    /\ power = "on" /\ req[r].pc = "write"
    /\ script' = req[r].gen
    /\ req' = [req EXCEPT ![r].pc = "start"]
    /\ UNCHANGED <<disk, run, unit, detached, act, events, power, tainted>>

\* systemd-run fails if the unit is loaded, running or failed.
Start(r) ==
    /\ power = "on" /\ req[r].pc = "start"
    /\ req' = [req EXCEPT ![r] = NoReq]
    /\ IF unit.st = "none"
         THEN unit' = [NoUnit EXCEPT !.st = "running", !.kind = req[r].kind,
                                     !.pc = IF req[r].kind = "txn" THEN "init" ELSE "pick"]
         ELSE UNCHANGED unit
    /\ UNCHANGED <<disk, run, detached, act, script, events, power, tainted>>

\* The generation's link, a store path, is compared with the profile's, a link name,
\* and with the booted system's, a store path: only the second can be equal.
delete_generation(g) ==
    /\ Event
    /\ power = "on" /\ g \in DOMAIN gens /\ gens[g] # booted
    /\ gens' = Restrict(gens, DOMAIN gens \ {g})
    /\ UNCHANGED <<profile, entry, live, run, unit, detached, act, script, req, power, tainted>>

\* systemctl reboot is refused to nobody; the services are terminated.
reboot ==
    /\ Event
    /\ power = "on" /\ act.by # "boot"
    /\ power' = "down"
    /\ req' = [r \in Req |-> NoReq]
    /\ IF StatusRunning THEN unit' \in Terminated /\ act' = Cut
                        ELSE UNCHANGED <<unit, act>>
    /\ UNCHANGED <<disk, run, detached, script, tainted>>

\* The machine stops, at any time, and boots the default entry: /run is empty, and
\* the recovery runs before the engine.
PowerCycle ==
    /\ Event
    /\ power' = "on"
    /\ current' = entry /\ booted' = entry
    /\ marker' = FALSE /\ recovered' = FALSE /\ tainted' = {}
    /\ unit' = NoUnit /\ detached' = {}
    /\ act' = [by |-> "boot", to |-> entry, pc |-> "recover"]
    /\ script' = 1
    /\ req' = [r \in Req |-> NoReq]
    /\ UNCHANGED disk

Next ==
    \/ ActEntry \/ ActFlip \/ ActFails \/ Recover \/ RecoverLock
    \/ TxnBegin \/ Build \/ Mark \/ SetFlag \/ InstallNix \/ InstallLock \/ SetProfile
    \/ TxnFails
    \/ TxnActivate \/ TxnRestartRecovery \/ TxnActed \/ Healthy \/ Unmark \/ Commit
    \/ RbMark \/ RbNix \/ RbLock \/ RbGen \/ RbDetach \/ RbActivate \/ RbActed \/ RbWait
    \/ RbEnd
    \/ \E d \in detached : DetachedActivate(d) \/ DetachedActed(d) \/ DetachedEnd(d)
    \/ Pick \/ SwitchActivate \/ SwitchActed
    \/ \E r \in Req : Check(r) \/ Stop(r) \/ Stopped(r) \/ GiveUp(r)
                      \/ WriteScript(r) \/ Start(r)
    \/ StopTimeout
    \/ \E g \in Gen : delete_generation(g)
    \/ reboot \/ PowerCycle

Spec == Init /\ [][Next]_vars

-----------------------------------------------------------------------------
(* Properties                                                              *)

Quiet ==
    /\ power = "on" /\ unit.st # "running" /\ detached = {} /\ act.by = "none"

\* When nothing runs and recovery is not suppressed, /etc/nixos holds the flake pair
\* of the active system, whichever step of an update, of a switch or of a rollback
\* failed, was interrupted by a reboot or lost power on the way.  The exceptions are
\* those `tainted` names: a recovery that itself fails leaves what it found, or half of
\* it, until one outside a transaction succeeds.  (update.rs install_pair,
\* rollback_transaction; nasty.nix recover-generation-flake.)
PairTruth == Quiet /\ ~marker /\ tainted = {} => live = Pair(current, current)

\* A transaction that failed is undone or finished as a whole: unless the marker says
\* that the rollback did not succeed, the pair, the profile and the active system are
\* all as before it, or all of the new system; a recovery that fails does not change
\* that.  The exceptions are a stop that falls between the removal of the marker and
\* MARKER_SET=false, a file the rollback could not write, and a transaction that began
\* under another's marker.  (update.rs rollback_transaction.)
AllOrNothing ==
    /\ Quiet /\ ~marker /\ tainted \subseteq {"stop", "recovery"}
    /\ unit.st = "failed" /\ unit.kind = "txn" /\ unit.pc # "init"
    =>
        \/ live = unit.backup /\ profile = unit.gen /\ current = unit.old
        \/ /\ live = Pair(unit.stage, unit.stage) /\ current = unit.stage
           /\ profile \in DOMAIN gens => gens[profile] = unit.stage

\* A rollback that gives up, or is killed when something in it has failed, has left the
\* marker that suppresses the recovery, also when the transaction had removed it
\* before.  The exceptions are those of AllOrNothing.  (update.rs rollback_transaction:
\* "Recovery remains suppressed; backups are in $BACKUP".)
FailedRollbackSuppresses ==
    /\ power = "on" /\ tainted \subseteq {"stop", "recovery"}
    /\ unit.st = "failed" /\ unit.kind = "txn" /\ ~unit.ok
    => marker

\* A transaction that ends with success has made its system the active one, the
\* profile's and the owner of the live pair.  (update.rs, the script from the health
\* check on.)
CommitHonest ==
    [][unit.st = "running" /\ unit.kind = "txn" /\ unit' = NoUnit /\ act'.by # "boot"
       /\ tainted \subseteq {"stop", "recovery"}
       => /\ current = unit.stage /\ live = Pair(unit.stage, unit.stage)
          /\ profile \in DOMAIN gens => gens[profile] = unit.stage]_vars

\* The link of the profile's generation is never deleted (update.rs:1901: "Don't
\* allow deleting the current generation").
CurrentLinkKept == profile \in DOMAIN gens

=============================================================================
