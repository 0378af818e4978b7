----------------------------- MODULE MCWatchdog -----------------------------
(* One slot and its Chromiums under the watchdog. *)
EXTENDS Process
=============================================================================
