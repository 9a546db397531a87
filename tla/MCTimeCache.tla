----------------------------- MODULE MCTimeCache -----------------------------
(***************************************************************************)
(* TimeCache for TLC: three slots, three seconds, a handler on top of a    *)
(* handler on top of the main program.                                     *)
(***************************************************************************)
EXTENDS TimeCache
===============================================================================
