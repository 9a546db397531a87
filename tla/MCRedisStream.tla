---------------------------- MODULE MCRedisStream ----------------------------
(***************************************************************************)
(* RedisStream for TLC: a buffer that has room for the answer and two      *)
(* short messages, and is reset, overwritten or filled with the third.     *)
(***************************************************************************)
EXTENDS RedisStream
===============================================================================
