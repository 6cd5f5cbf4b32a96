--------------------------- MODULE ConfirmOrRevert ---------------------------
(***************************************************************************)
(* What NetworkService promises about the configuration a box comes up     *)
(* with: there is one configuration it falls back to, a change may be on   *)
(* trial beside it, and a change on trial replaces the fallback only when  *)
(* a client asks for it.  Tables, timers, locks and crashes do not appear. *)
(***************************************************************************)
CONSTANTS Configs, DefaultCfg, None

VARIABLES
    safe,      \* the configuration an unconfirmed change falls back to
    trial,     \* the configuration on trial, or None
    asked,     \* a client's confirm of it has been admitted
    legible    \* the running version can read what is stored

vars == <<safe, trial, asked, legible>>

Init ==
    /\ safe = DefaultCfg /\ trial = None
    /\ asked = FALSE /\ legible = TRUE

\* A write may replace a file that could not be read.
Written == legible' \in {legible, TRUE}

\* A change without a window is final at once.
Set(c) ==
    /\ trial = None
    /\ safe' = c
    /\ Written
    /\ UNCHANGED <<trial, asked>>

\* A trial opens with the fallback itself, and tries one other configuration.
Open ==
    /\ trial = None
    /\ trial' = safe
    /\ UNCHANGED <<safe, asked, legible>>

Try(c) ==
    /\ trial = safe
    /\ trial' = c
    /\ Written
    /\ UNCHANGED <<safe, asked>>

\* A client may repeat a confirm whose answer was lost, so also without a trial.
Ask ==
    /\ asked' = TRUE
    /\ UNCHANGED <<safe, trial, legible>>

\* The request ends without effect.
Withdraw ==
    /\ asked' = FALSE
    /\ UNCHANGED <<safe, trial, legible>>

Accept ==
    /\ asked /\ trial # None
    /\ safe' = trial
    /\ trial' = None
    /\ asked' = FALSE
    /\ UNCHANGED legible

\* The trial goes back to the fallback, and only then ends.
Undo ==
    /\ trial # None /\ ~asked
    /\ trial' = safe
    /\ Written
    /\ UNCHANGED <<safe, asked>>

Close ==
    /\ trial = safe /\ ~asked
    /\ trial' = None
    /\ UNCHANGED <<safe, asked, legible>>

\* A new version finds a file it cannot read: without the fallback the change on
\* trial is final, without the other the default takes its place.
Forget ==
    /\ legible' = FALSE
    /\ asked' = FALSE
    /\ \/ trial # None /\ safe' = trial /\ trial' = None
       \/ trial # None /\ trial' = DefaultCfg /\ UNCHANGED safe
       \/ trial = None /\ safe' = DefaultCfg /\ UNCHANGED trial

\* What cannot be read is removed.
Discard ==
    /\ legible' = TRUE
    /\ UNCHANGED <<safe, trial, asked>>

Next ==
    \/ \E c \in Configs : Set(c) \/ Try(c)
    \/ Open \/ Ask \/ Withdraw \/ Accept \/ Undo \/ Close \/ Forget \/ Discard

Spec == Init /\ [][Next]_vars
=============================================================================
