---------------------------- MODULE MCProcessLife ----------------------------
(***************************************************************************)
(* ProcessLife for TLC: two workers and a message process.  A channel      *)
(* holds one command: enough for the one OPEN_CHANNEL a worker can be sent *)
(* while the other one starts, and few enough for a notification to fill   *)
(* it before the order to stop.                                            *)
(***************************************************************************)
EXTENDS ProcessLife
===============================================================================
