-------------------------- MODULE MCBackupScheduler --------------------------
(* Model-checking instance of BackupScheduler: an hourly and a daily schedule *)
(* on a clock of a few ticks.                                                 *)
EXTENDS BackupScheduler

CONSTANTS Hourly, Daily

TwoSchedules == {Hourly, Daily}
==============================================================================
