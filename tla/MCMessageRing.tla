---------------------------- MODULE MCMessageRing ----------------------------
(***************************************************************************)
(* MessageRing for TLC: two slots, so that the writer laps a slow reader   *)
(* within four messages, and a channel that holds a single command.        *)
(***************************************************************************)
EXTENDS MessageRing
===============================================================================
