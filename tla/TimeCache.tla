------------------------------- MODULE TimeCache -------------------------------
(***************************************************************************)
(* The cached time of one process (core/ngx_times.c): slots that           *)
(* ngx_time_update and, in a signal handler, ngx_time_sigsafe_update fill  *)
(* and publish under a lock that is only ever tried, and the reader that   *)
(* takes no lock, ngx_log_error_core.                                      *)
(*                                                                         *)
(* There is one thread.  Concurrency is a signal handler that runs on top  *)
(* of whatever it interrupts and to its end, so the state of the program   *)
(* is a stack of activations of which the top one runs.  The handlers'     *)
(* sa_mask is empty: another signal interrupts a handler.                  *)
(*                                                                         *)
(* A worker has its signals unblocked and never calls ngx_time_update (the *)
(* call in ngx_epoll_process_events is compiled out).  The master takes    *)
(* signals inside sigsuspend() only and updates the time after it.         *)
(*                                                                         *)
(* The strings that both updates write (error log, syslog) are err, in two *)
(* halves; what only the full update writes goes with cached_time.         *)
(***************************************************************************)
EXTENDS Integers, Sequences

CONSTANTS N,        \* NGX_TIME_SLOTS
          MaxSec,   \* bound: the clock stops there
          MaxNest   \* bound: handlers on top of each other

ASSUME TimeAssumption == N \in Nat /\ N >= 2 /\ MaxSec \in Nat \ {0} /\ MaxNest \in Nat

VARIABLES
  role,       \* "master" or "worker"
  now,        \* the clock's second
  lock,       \* ngx_time_lock
  slot,       \* slot
  sec,        \* sec[i]: cached_time[i].sec
  err,        \* err[i]: cached_err_log_time[i], the second each half tells
  pubTime,    \* the slot ngx_cached_time points to
  pubErr,     \* the slot ngx_cached_err_log_time.data points to
  diskFull,   \* log->disk_full_time
  stack,      \* the activations, the running one last
  enospc,     \* a write to the log has failed (history)
  skipped     \* a line was not written because of disk_full_time (history)

shared == <<lock, slot, sec, err, pubTime, pubErr>>
vars == <<role, now, shared, diskFull, stack, enospc, skipped>>

Slots == 0 .. N - 1
Second == 1 .. MaxSec

(* An activation: what it is, where it is, the second it has read, the slot *)
(* and the line it is copying, the slots filled since it began to copy.     *)
Activation(op, pc) ==
  [op |-> op, pc |-> pc, at |-> 0, from |-> 0, line |-> <<0, 0>>, filled |-> 0]

Top == stack[Len(stack)]
Push(a) == stack' = Append(stack, a)
Replace(a) == stack' = [stack EXCEPT ![Len(stack)] = a]
Return == stack' = SubSeq(stack, 1, Len(stack) - 1)

(* ngx_time_init and ngx_init_cycle have each updated the time once.       *)
Init ==
  /\ role \in {"master", "worker"}
  /\ now = 1 /\ lock = 0
  /\ slot = 2 % N /\ pubTime = slot /\ pubErr = slot
  /\ sec = [i \in Slots |-> IF i = slot THEN now ELSE 0]
  /\ err = [i \in Slots |-> IF i \in {1, slot} THEN <<now, now>> ELSE <<0, 0>>]
  /\ diskFull = 0
  /\ stack = << >>
  /\ enospc = FALSE /\ skipped = FALSE

-------------------------------------------------------------------------------
(* Activations begin.                                                      *)

Tick ==
  /\ now < MaxSec
  /\ now' = now + 1
  /\ UNCHANGED <<role, shared, diskFull, stack, enospc, skipped>>

Handlers == {i \in DOMAIN stack : stack[i].op = "handler"}

(* ngx_signal_handler.  In the master the main program is not interrupted. *)
Signal ==
  /\ Len(stack) <= MaxNest
  /\ role = "master" /\ stack # << >> => 1 \in Handlers
  /\ Push(Activation("handler", "try"))
  /\ UNCHANGED <<role, now, shared, diskFull, enospc, skipped>>

(* The main program of a worker logs.                                      *)
MainLogs ==
  /\ role = "worker" /\ stack = << >>
  /\ Push(Activation("log", "copy"))
  /\ UNCHANGED <<role, now, shared, diskFull, enospc, skipped>>

(* The master, back from sigsuspend().                                     *)
MainUpdates ==
  /\ role = "master" /\ stack = << >>
  /\ Push(Activation("update", "try"))
  /\ UNCHANGED <<role, now, shared, diskFull, enospc, skipped>>

-------------------------------------------------------------------------------
(* ngx_time_update and ngx_time_sigsafe_update.                            *)

Running(pc) == stack # << >> /\ Top.pc = pc

(* The handler goes on to log; the update returns.                         *)
UpdateReturns ==
  IF Top.op = "handler" THEN Replace([Top EXCEPT !.pc = "copy"]) ELSE Return

(* Mutant: the lock is taken without being looked at.                      *)
TryLock_Always ==
  /\ Running("try")
  /\ lock' = 1 /\ Replace([Top EXCEPT !.pc = "check"])
  /\ UNCHANGED <<role, now, slot, sec, err, pubTime, pubErr, diskFull, enospc, skipped>>

(* ngx_trylock: an update that interrupts another one does nothing.        *)
TryLock ==
  /\ Running("try")
  /\ IF lock = 0 THEN lock' = 1 /\ Replace([Top EXCEPT !.pc = "check"])
                 ELSE lock' = lock /\ UpdateReturns
  /\ UNCHANGED <<role, now, slot, sec, err, pubTime, pubErr, diskFull, enospc, skipped>>

(* Mutant: the early return forgets the lock.                              *)
SameSecond_KeepsLock ==
  /\ Running("check") /\ sec[slot] = now
  /\ UpdateReturns
  /\ UNCHANGED <<role, now, shared, diskFull, enospc, skipped>>

(* The current slot holds this second already.                             *)
SameSecond ==
  /\ Running("check") /\ sec[slot] = now
  /\ lock' = 0 /\ UpdateReturns
  /\ UNCHANGED <<role, now, slot, sec, err, pubTime, pubErr, diskFull, enospc, skipped>>

(* Mutants: no wrap; the slot that is published is filled again.           *)
NextSlot_NoWrap == slot + 1
NextSlot_Stays == slot

NextSlot == IF slot = N - 1 THEN 0 ELSE slot + 1

(* A copy that was interrupted has one more slot filled under it.          *)
OneMore(a) == [a EXCEPT !.filled = IF @ < N THEN @ + 1 ELSE @]

(* The next slot: the full update knows its second, the handler leaves 0,  *)
(* so that the next update fills a slot again, in the same second too.     *)
TakeSlot ==
  /\ Running("check") /\ sec[slot] # now
  /\ slot' = NextSlot
  /\ sec' = [sec EXCEPT ![NextSlot] = IF Top.op = "update" THEN now ELSE 0]
  /\ stack' = [i \in DOMAIN stack |->
                 IF i = Len(stack) THEN [Top EXCEPT !.pc = "first", !.at = now]
                                   ELSE OneMore(stack[i])]
  /\ UNCHANGED <<role, now, lock, err, pubTime, pubErr, diskFull, enospc, skipped>>

FirstHalf ==
  /\ Running("first")
  /\ err' = [err EXCEPT ![slot] = <<Top.at, @[2]>>]
  /\ Replace([Top EXCEPT !.pc = "second"])
  /\ UNCHANGED <<role, now, lock, slot, sec, pubTime, pubErr, diskFull, enospc, skipped>>

SecondHalf ==
  /\ Running("second")
  /\ err' = [err EXCEPT ![slot] = <<@[1], Top.at>>]
  /\ Replace([Top EXCEPT !.pc = "publish"])
  /\ UNCHANGED <<role, now, lock, slot, sec, pubTime, pubErr, diskFull, enospc, skipped>>

(* Mutant: the pointer is stored before the string it points to.           *)
Publish_Early ==
  /\ Running("first")
  /\ pubErr' = slot
  /\ err' = [err EXCEPT ![slot] = <<Top.at, @[2]>>]
  /\ Replace([Top EXCEPT !.pc = "second"])
  /\ UNCHANGED <<role, now, lock, slot, sec, pubTime, diskFull, enospc, skipped>>

(* Behind the memory barrier the pointers are stored.                      *)
Publish ==
  /\ Running("publish")
  /\ pubErr' = slot
  /\ pubTime' = IF Top.op = "update" THEN slot ELSE pubTime
  /\ Replace([Top EXCEPT !.pc = "unlock"])
  /\ UNCHANGED <<role, now, lock, slot, sec, err, diskFull, enospc, skipped>>

Unlock ==
  /\ Running("unlock")
  /\ lock' = 0 /\ UpdateReturns
  /\ UNCHANGED <<role, now, slot, sec, err, pubTime, pubErr, diskFull, enospc, skipped>>

-------------------------------------------------------------------------------
(* ngx_log_error_core.                                                     *)

Copy ==
  /\ Running("copy")
  /\ Replace([Top EXCEPT !.pc = "rest", !.from = pubErr, !.filled = 0,
                         !.line = <<err[pubErr][1], 0>>])
  /\ UNCHANGED <<role, now, shared, diskFull, enospc, skipped>>

CopyRest ==
  /\ Running("rest")
  /\ Replace([Top EXCEPT !.pc = "write", !.line = <<@[1], err[Top.from][2]>>])
  /\ UNCHANGED <<role, now, shared, diskFull, enospc, skipped>>

(* ngx_time() is the second in which the disk was full.                    *)
Skip ==
  /\ Running("write") /\ sec[pubTime] = diskFull
  /\ skipped' = TRUE /\ Return
  /\ UNCHANGED <<role, now, shared, diskFull, enospc>>

Write ==
  /\ Running("write") /\ sec[pubTime] # diskFull
  /\ Return
  /\ UNCHANGED <<role, now, shared, diskFull, enospc, skipped>>

WriteFails ==
  /\ Running("write") /\ sec[pubTime] # diskFull
  /\ diskFull' = sec[pubTime] /\ enospc' = TRUE /\ Return
  /\ UNCHANGED <<role, now, shared, skipped>>

Update == TryLock \/ SameSecond \/ TakeSlot \/ FirstHalf \/ SecondHalf \/ Publish \/ Unlock
Log    == Copy \/ CopyRest \/ Skip \/ Write \/ WriteFails

Next == Tick \/ Signal \/ MainLogs \/ MainUpdates \/ Update \/ Log

Spec == Init /\ [][Next]_vars

-------------------------------------------------------------------------------
(* Properties.                                                             *)

Updating == {"check", "first", "second", "publish", "unlock"}

Act == [op : {"handler", "update", "log"},
        pc : Updating \cup {"try", "copy", "rest", "write"},
        at : {0} \cup Second, from : Slots, filled : 0 .. N,
        line : ({0} \cup Second) \X ({0} \cup Second)]

(* The types of the slots, the pointers and the activations.               *)
TypeOK ==
  /\ role \in {"master", "worker"} /\ now \in Second /\ lock \in {0, 1}
  /\ slot \in Slots /\ pubTime \in Slots /\ pubErr \in Slots
  /\ sec \in [Slots -> {0} \cup Second]
  /\ err \in [Slots -> ({0} \cup Second) \X ({0} \cup Second)]
  /\ diskFull \in {0} \cup Second /\ enospc \in BOOLEAN /\ skipped \in BOOLEAN
  /\ stack \in Seq(Act)

(* Whatever interrupts whatever, at most one activation is between         *)
(* ngx_trylock and ngx_unlock, and every way out of it frees the lock: a   *)
(* lock without an owner would stop the time of the process for good.      *)
LockHasItsOwner ==
  LET owners == {i \in DOMAIN stack : stack[i].pc \in Updating}
  IN IF lock = 0 THEN owners = {} ELSE \E i \in DOMAIN stack : owners = {i}

(* A handler may interrupt an update at any instruction and then log: the  *)
(* string it finds published is whole, never the slot being filled.        *)
PublishedIsWhole == err[pubErr][1] = err[pubErr][2]

(* A line copied while fewer than N slots were filled carries one time.    *)
LineIsWholeUnlessLapped ==
  \A i \in DOMAIN stack :
    stack[i].pc = "write" /\ stack[i].filled < N => stack[i].line[1] = stack[i].line[2]

(* Time in the log does not go back: an update that has been interrupted   *)
(* does not publish an older second over a newer one.                      *)
TimeNeverGoesBack == [][err'[pubErr'][1] >= err[pubErr][1]]_vars

(* "so we skip writing to a log for one second": a line is skipped because *)
(* a write failed, not otherwise.                                          *)
SkipsOnlyAfterFullDisk == skipped => enospc
===============================================================================
