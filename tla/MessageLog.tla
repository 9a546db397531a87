------------------------------ MODULE MessageLog ------------------------------
(***************************************************************************)
(* What the shared-memory broadcast promises: one producer appends         *)
(* messages 1, 2, 3, ... and every worker walks forward through them.  A   *)
(* worker takes the messages one by one; the only gap it may ever leave is *)
(* the one the producer makes by getting a whole ring of N messages ahead. *)
(* MessageRing is shown to implement this specification.                   *)
(***************************************************************************)
EXTENDS Integers

CONSTANTS N,            \* messages the log keeps (NGX_WEBSOCKET_MESSAGE_N)
          Worker        \* the readers

VARIABLES published,    \* number of the last message appended
          passed,       \* passed[w]: number of the last message w is done with
          stopped       \* readers that have left

logVars == <<published, passed, stopped>>

Init == /\ published = 0
        /\ passed = [w \in Worker |-> 0]
        /\ stopped = {}

Publish == /\ published' = published + 1
           /\ UNCHANGED <<passed, stopped>>

(* w moves to the next message, or over the messages it was too slow for.  *)
Pass(w) == /\ w \notin stopped
           /\ \E m \in (passed[w] + 1) .. published :
                /\ m = passed[w] + 1 \/ m >= passed[w] + 1 + N
                /\ passed' = [passed EXCEPT ![w] = m]
           /\ UNCHANGED <<published, stopped>>

Stop(w) == /\ stopped' = stopped \cup {w}
           /\ UNCHANGED <<published, passed>>

Next == \/ Publish
        \/ \E w \in Worker : Pass(w) \/ Stop(w)

Safe == Init /\ [][Next]_logVars
Spec == Safe /\ \A w \in Worker : WF_logVars(Pass(w))
===============================================================================
