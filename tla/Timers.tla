-------------------------------- MODULE Timers --------------------------------
(***************************************************************************)
(* The timers of the event loop (event/ngx_event_timer.c and .h) over the  *)
(* tree of RbTree, in a round of ngx_process_events_and_timers().          *)
(*                                                                         *)
(* No handler of the program sets a timer today (the calls are commented   *)
(* out) and no worker updates ngx_current_msec (that is under #if 0): what *)
(* handlers do and how the time goes on are the inputs here, as for any    *)
(* caller of these functions.                                              *)
(***************************************************************************)
EXTENDS RbTree

CONSTANTS
  Delays,    \* what handlers ask for, in milliseconds
  Lazy,      \* NGX_TIMER_LAZY_DELAY
  Lag        \* bound: what epoll_wait() and the handlers take too long

(* 0 is no delay here: a handler that asks for it is called again at once, *)
(* for ever.  The times in use never span half of the clock.               *)
ASSUME TimersAssumption ==
  /\ Delays \subseteq Nat \ {0} /\ Delays # {}
  /\ Lazy \in Nat /\ Lag \in Nat
  /\ \A d \in Delays : 2 * (d + Lag) < Modulus

VARIABLES
  timers,            \* ngx_event_timer_rbtree
  timer_set,         \* ev->timer_set
  ngx_current_msec,
  phase,             \* "posted", "events" or "expire": where the round is
  late               \* history: by how much the last one called was late

timerVars == <<timers, timer_set, ngx_current_msec, phase, late>>

TimersInit ==
  /\ timers = EmptyTree
  /\ timer_set = [e \in Node |-> FALSE]
  /\ ngx_current_msec \in Key /\ phase = "posted" /\ late = 0

-------------------------------------------------------------------------------
(* What handlers do: to the tree T and the flags S.                        *)

Both(T, S) == [tree |-> T, set |-> S]
Now == Both(timers, timer_set)
Kept(b) == timers' = b.tree /\ timer_set' = b.set

(* ngx_event_del_timer(): of a timer that is set, as in                    *)
(* ngx_close_connection().                                                 *)
TimerDeleted(b, e) == Both(Delete(b.tree, e), [b.set EXCEPT ![e] = FALSE])

Magnitude(d) == IF d < 0 THEN -d ELSE d

(* ngx_event_add_timer(): a timer that is set and almost right is left.    *)
TimerAdded(b, e, delay) ==
  LET key == (ngx_current_msec + delay) % Modulus
      without == IF b.set[e] THEN TimerDeleted(b, e) ELSE b
  IN IF b.set[e] /\ Magnitude(Signed(key, b.tree.key[e])) < Lazy THEN b
     ELSE Both(Insert([without.tree EXCEPT !.key[e] = key], e), [b.set EXCEPT ![e] = TRUE])

(* A handler sets a timer, deletes one, or does neither.                   *)
Handled(b) ==
  {b} \cup {TimerAdded(b, e, d) : e \in Node, d \in Delays} \cup {TimerDeleted(b, e) : e \in {e \in Node : b.set[e]}}

-------------------------------------------------------------------------------
First == MinFrom(timers, timers.root)
Until(key) == Signed(key, ngx_current_msec)

(* Mutant: the root is taken for the first.                                *)
FindTimer_Root == IF timers.root = Sentinel THEN -1 ELSE Magnitude(Until(timers.key[timers.root]))

(* ngx_event_find_timer(): how long to wait, -1 for ever.                  *)
FindTimer == IF timers.root = Sentinel THEN -1
             ELSE IF Until(timers.key[First]) > 0 THEN Until(timers.key[First]) ELSE 0

(* epoll_wait() for that long, or until something happens, or a little     *)
(* longer.  A round in which the time stays the same does not expire.      *)
Wait ==
  /\ phase = "posted"
  /\ \E d \in 1 .. Half - 1 :
       /\ FindTimer >= 0 => d <= FindTimer + Lag
       /\ ngx_current_msec' = (ngx_current_msec + d) % Modulus
  /\ phase' = "events" /\ late' = 0
  /\ UNCHANGED <<timers, timer_set>>

(* A handler of an event or of a posted event.                             *)
Handle ==
  /\ phase \in {"events", "posted"}
  /\ \E b \in Handled(Now) : Kept(b)
  /\ UNCHANGED <<ngx_current_msec, phase, late>>

Expire ==
  /\ phase = "events" /\ phase' = "expire"
  /\ UNCHANGED <<timers, timer_set, ngx_current_msec, late>>

(* Mutant: a timer whose time has just come waits for the next round.      *)
Due_NotNow == timers.root # Sentinel /\ Until(timers.key[First]) < 0

Due == timers.root # Sentinel /\ Until(timers.key[First]) <= 0

(* The loop of ngx_event_expire_timers(): the first timer, if it is due,   *)
(* is deleted and then its handler called.                                 *)
ExpireTimer ==
  /\ phase = "expire" /\ Due
  /\ \E b \in Handled(TimerDeleted(Now, First)) : Kept(b)
  /\ late' = -Until(timers.key[First])
  /\ UNCHANGED <<ngx_current_msec, phase>>

Expired ==
  /\ phase = "expire" /\ ~Due /\ phase' = "posted" /\ late' = 0
  /\ UNCHANGED <<timers, timer_set, ngx_current_msec>>

TimersNext == Wait \/ Handle \/ Expire \/ ExpireTimer \/ Expired

TimersSpec == TimersInit /\ [][TimersNext]_timerVars

-------------------------------------------------------------------------------
(* Properties.                                                             *)

(* What a walk with ngx_rbtree_next() from n meets.                        *)
WalkRound(t) ==
  [w \in [seen : SUBSET Node, at : Ptr] |->
    IF w.at = Sentinel THEN w ELSE [seen |-> w.seen \cup {w.at}, at |-> NextOf(t, w.at)]]
WalkFrom(t, n) == Loop(WalkRound(t), [seen |-> {}, at |-> n]).seen

(* ngx_event_no_timers_left(), of which nobody makes use: only timers that *)
(* are cancelable are left.                                                *)
NoTimersLeft(cancelable) == timers.root = Sentinel \/ WalkFrom(timers, First) \subseteq cancelable

(* Whatever was set, set again and deleted, with equal keys and over the   *)
(* end of the clock, the tree is a red-black tree of the timers that are   *)
(* set, in the order of the time, and a walk with ngx_rbtree_next() from   *)
(* the first meets them all.                                               *)
TreeHoldsTheTimers ==
  LET set == {e \in Node : timer_set[e]}
  IN /\ IsRedBlack(timers) /\ IsOrdered(timers)
     /\ Below(timers, timers.root) = set
     /\ set # {} => WalkFrom(timers, First) = set /\ ~NoTimersLeft(set \ {First})

(* A handler is called when the time of its timer has come, not later than *)
(* the round that this time ends, and no round ends with a timer that has  *)
(* passed.                                                                 *)
TimersAreOnTime ==
  /\ 0 <= late /\ late <= Lag
  /\ phase = "posted" => \A e \in Node : timer_set[e] => Until(timers.key[e]) > 0
===============================================================================
