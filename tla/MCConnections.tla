---------------------------- MODULE MCConnections ----------------------------
(***************************************************************************)
(* Connections for TLC.  pool: one slot for more clients than one, so that *)
(* a newcomer meets a full pool and a slot is used again; delivery: two    *)
(* websockets in the queue of the channel and a message for both.          *)
(***************************************************************************)
EXTENDS Connections
===============================================================================
