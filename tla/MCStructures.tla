----------------------------- MODULE MCStructures -----------------------------
(***************************************************************************)
(* What a process keeps for itself alone, checked in one run: the cached   *)
(* time, a pool, the timers, the table of the channels.  They share        *)
(* nothing, so each behaviour is one of the subject chosen at first.       *)
(***************************************************************************)
EXTENDS TimeCache, MemoryPool, Timers, HashTable

VARIABLE subject

all == <<vars, poolVars, timerVars, hashVars, subject>>

InitAll ==
  /\ Init /\ PoolInit /\ TimersInit /\ HashInit
  /\ subject \in {"time", "pool", "timers", "channels"}
  /\ subject # "time" => role = "worker"
  /\ subject # "timers" => ngx_current_msec = 0

NextAll ==
  /\ UNCHANGED subject
  /\ \/ subject = "time" /\ Next /\ UNCHANGED <<poolVars, timerVars, hashVars>>
     \/ subject = "pool" /\ PoolNext /\ UNCHANGED <<vars, timerVars, hashVars>>
     \/ subject = "timers" /\ TimersNext /\ UNCHANGED <<vars, poolVars, hashVars>>
     \/ subject = "channels" /\ HashNext /\ UNCHANGED <<vars, poolVars, timerVars>>

SpecAll == InitAll /\ [][NextAll]_all

(* Events are alike: two trees of the same shape, with the same keys,      *)
(* colours and flags, and as many flags beside them, have the same future. *)
RECURSIVE Shape(_)
Shape(n) ==
  IF n = Sentinel THEN <<timers.red[n]>>
  ELSE <<timers.key[n], timers.red[n], timer_set[n],
         [s \in Side |-> timers.child[s][n] # Sentinel => timers.parent[timers.child[s][n]] = n],
         Shape(timers.child["left"][n]), Shape(timers.child["right"][n])>>
View == <<subject, vars, poolVars, hashVars, ngx_current_msec, phase, late,
          Shape(timers.root), Cardinality({e \in Node : timer_set[e]})>>

TableSizes == <<3, 5, 7>>
===============================================================================
