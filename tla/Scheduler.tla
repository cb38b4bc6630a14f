------------------------------- MODULE Scheduler -------------------------------
(***************************************************************************)
(* What the loops of the daemon's scheduler share (internal/app/           *)
(* scheduler.go): the mutex of the operations that probe or replace the    *)
(* active route.  Module ConnectionWatch is the loop that watches the      *)
(* connection, module HealthJobs the health checks.                        *)
(***************************************************************************)
CONSTANT
    None        \* no value: a key, a request or a marker that is absent

VARIABLE
    healthMu    \* the holder of Scheduler.healthMu
===============================================================================
