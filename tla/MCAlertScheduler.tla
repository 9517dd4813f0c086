--------------------------- MODULE MCAlertScheduler ---------------------------
(* Small instances of AlertScheduler for TLC. *)
EXTENDS AlertScheduler

CONSTANTS halfhourly, hourly, check
===============================================================================
