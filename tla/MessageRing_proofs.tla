-------------------------- MODULE MessageRing_proofs --------------------------
(***************************************************************************)
(* Proofs about MessageRing, for every ring size, number of workers,       *)
(* channel capacity and number of messages.                                *)
(***************************************************************************)
EXTENDS MessageRing, TLAPS

(* The successor of a slot is a slot: the ring of next pointers is closed. *)
LEMMA NextInRing == \A s \in Slot : NextSlot(s) \in Slot
  BY RingAssumption DEF Slot, NextSlot

(* A load through a worker's cursor yields a message number.               *)
LEMMA LoadIsNat ==
  ASSUME TypeOK, NEW w \in Worker
  PROVE  \A f \in {ID, CHANNEL, HEAD, BODY, LENGTH} : messages[message_send[w]][f] \in Nat
<1>1. {ID, CHANNEL, HEAD, BODY, LENGTH} \subseteq Field
  BY DEF Field, ID, CHANNEL, HEAD, BODY, LENGTH
<1>2. messages[message_send[w]] \in [Field -> Nat]
  BY DEF TypeOK
<1> QED
  BY <1>1, <1>2

(* The loop of ngx_websocket_new_message stays inside the process table.   *)
NotifiesWorker == stage = NOTIFY => target \in Worker

TypeInv == TypeOK /\ NotifiesWorker

(* The type invariant, made inductive.                                     *)
LEMMA TypeInvCorrect == Spec => []TypeInv
<1> USE DEF ID, IDLE, EXITED
<1>1. Init => TypeInv
  BY RingAssumption DEF Init, TypeInv, TypeOK, NotifiesWorker, NOTIFY, NoFrame, Slot
<1>2. TypeInv /\ [Next]_vars => TypeInv'
  <2> SUFFICES ASSUME TypeOK, NotifiesWorker, [Next]_vars
               PROVE  TypeOK' /\ NotifiesWorker'
    BY DEF TypeInv
  <2> USE DEF NotifiesWorker, NOTIFY
  <2>1. CASE Receive
    BY <2>1 DEF TypeOK, Receive, readerVars
  <2>2. CASE Store
    <3>1. touched' \in [Worker -> BOOLEAN]
      BY <2>2 DEF TypeOK, Store
    <3>2. stage' \in IDLE .. EXITED /\ stage' # NOTIFY
      BY <2>2 DEF Store, Field, LENGTH
    <3>3. messages' \in [Slot -> [Field -> Nat]]
      BY <2>2 DEF TypeOK, Store
    <3> QED
      BY <2>2, <3>1, <3>2, <3>3 DEF TypeOK, Store, readerVars
  <2>3. CASE Advance
    <3>1. message_index' \in Slot
      BY <2>3, NextInRing DEF TypeOK, Advance
    <3>2. target' \in 0 .. W /\ target' \in Worker
      BY <2>3, RingAssumption DEF Advance, Worker
    <3> QED
      BY <2>3, <3>1, <3>2 DEF TypeOK, Advance, readerVars, NOTIFY
  <2>4. CASE Notify
    <3>1. /\ target \in Worker /\ target' \in 0 .. W
          /\ stage' = NOTIFY => target' \in Worker
      BY <2>4, RingAssumption DEF Notify, Worker
    <3>2. channel' \in [Worker -> 0 .. ChannelCap]
      BY <2>4, <3>1, RingAssumption DEF TypeOK, Notify
    <3> QED
      BY <2>4, <3>1, <3>2 DEF TypeOK, Notify, readerVars, NOTIFY
  <2>5. CASE WriterExit
    BY <2>5 DEF TypeOK, WriterExit, readerVars
  <2>6. ASSUME NEW w \in Worker, Work(w) \/ ClientEvent(w) \/ WorkerExit(w)
        PROVE  TypeOK' /\ NotifiesWorker'
    <3> USE DEF TypeOK, ReaderStep, writerVars, GoTo
    <3>1. CASE ChannelEvent(w)
      <4>1. channel' \in [Worker -> 0 .. ChannelCap]
        BY <3>1, RingAssumption DEF ChannelEvent
      <4>2. registered' \in [Worker -> BOOLEAN]
        BY <3>1 DEF ChannelEvent
      <4> QED
        BY <3>1, <4>1, <4>2 DEF ChannelEvent
    <3>2. CASE ClientEvent(w)
      BY <3>2 DEF ClientEvent
    <3>3. CASE Scan(w)
      <4>1. frame' \in [Worker -> [id : Nat, length : Nat, head : Nat, body : Nat]]
        <5> DEFINE id == messages[message_send[w]][ID]
        <5>1. id \in Nat
          BY LoadIsNat
        <5>2. frame' = frame \/ frame' = [frame EXCEPT ![w] =
                                   [id |-> id, length |-> 0, head |-> 0, body |-> 0]]
          BY <3>3 DEF Scan, NoFrame
        <5> HIDE DEF id
        <5>3. [id |-> id, length |-> 0, head |-> 0, body |-> 0]
                \in [id : Nat, length : Nat, head : Nat, body : Nat]
          BY <5>1
        <5> QED
          BY <5>2, <5>3
      <4>2. touched' \in [Worker -> BOOLEAN]
        <5>1. \/ touched' = touched
              \/ touched' = [touched EXCEPT ![w] = InSlot(message_send[w])]
          BY <3>3 DEF Scan
        <5>2. InSlot(message_send[w]) \in BOOLEAN
          BY DEF InSlot
        <5> QED
          BY <5>1, <5>2
      <4> QED
        BY <3>3, <4>1, <4>2 DEF Scan
    <3>4. CASE Lookup(w)
      BY <3>4 DEF Lookup
    <3>5. CASE LoadLength(w)
      BY <3>5, LoadIsNat DEF LoadLength
    <3>6. CASE SendHead(w)
      BY <3>6, LoadIsNat DEF SendHead
    <3>7. CASE SendBody(w)
      BY <3>7, LoadIsNat DEF SendBody
    <3>8. CASE Resync(w)
      BY <3>8, LoadIsNat, NextInRing DEF Resync, NoFrame
    <3>9. CASE WorkerExit(w)
      BY <3>9 DEF WorkerExit
    <3> QED
      BY <2>6, <3>1, <3>2, <3>3, <3>4, <3>5, <3>6, <3>7, <3>8, <3>9 DEF Work
  <2>7. CASE UNCHANGED vars
    BY <2>7 DEF TypeOK, vars, writerVars, readerVars
  <2> QED
    BY <2>1, <2>2, <2>3, <2>4, <2>5, <2>6, <2>7 DEF Next, WriterNext
<1> QED
  BY <1>1, <1>2, PTL DEF Spec

(* Every variable has its type in every reachable state: no index leaves   *)
(* the ring, no channel holds more than its capacity, and no worker outside *)
(* the process table is notified.                                          *)
THEOREM TypeCorrect == Spec => []TypeOK
<1>1. TypeInv => TypeOK
  BY DEF TypeInv
<1> QED
  BY <1>1, TypeInvCorrect, PTL

-------------------------------------------------------------------------------
(* A step of a worker leaves the ring and the writer alone.                *)
LEMMA WorkersOnlyRead ==
  ASSUME NEW w \in Worker, Work(w) \/ ClientEvent(w) \/ WorkerExit(w)
  PROVE  UNCHANGED <<messages, message_index, message_id, stage, target>>
BY DEF Work, ClientEvent, WorkerExit, ChannelEvent, Scan, Lookup, LoadLength,
       SendHead, SendBody, Resync, ReaderStep, writerVars

(* Ids start at 1 and grow with the index, so the id is always ahead.      *)
IdAheadOfIndex == message_id > message_index

RingInv == RingOrder /\ IdAheadOfIndex

LEMMA RingInvInit == Init => RingInv
BY RingAssumption DEF Init, RingInv, RingOrder, IdAheadOfIndex, ThisLap, LastLap,
   Slot, Field, ID, LENGTH, IDLE, ADVANCE

LEMMA RingInvStep ==
  ASSUME TypeOK, RingInv, [Next]_vars
  PROVE  RingInv'
<1> USE DEF RingInv, IdAheadOfIndex
<1>0. message_index \in Nat /\ message_id \in Nat /\ message_index < N
  BY RingAssumption DEF TypeOK, Slot
<1>1. CASE Receive
  BY <1>1, <1>0 DEF Receive, RingOrder, ThisLap, LastLap, Field, ID, LENGTH, IDLE, ADVANCE
<1>2. CASE Store
  <2>1. UNCHANGED <<message_index, message_id>> /\ stage' = stage + 1 /\ stage \in 1 .. 5
    BY <1>2 DEF Store, Field, ID, LENGTH
  <2>2. ThisLap(message_index) = message_id
    BY <1>0 DEF ThisLap
  <2>3. ASSUME NEW s \in Slot, NEW f \in Field
        PROVE  messages'[s][f] = IF s = message_index /\ f = stage
                                 THEN message_id ELSE messages[s][f]
    BY <1>2 DEF Store, TypeOK
  <2>4. ASSUME NEW s \in Slot, NEW f \in Field
        PROVE  messages'[s][f] = IF \/ s < message_index
                                    \/ s = message_index /\ stage + 1 \in f + 1 .. ADVANCE
                                 THEN ThisLap(s) ELSE LastLap(s)
    <3>1. f \in 1 .. 5 /\ s \in Nat
      BY RingAssumption DEF Field, ID, LENGTH, Slot
    <3>2. messages[s][f] = IF \/ s < message_index
                              \/ s = message_index /\ stage \in f + 1 .. ADVANCE
                           THEN ThisLap(s) ELSE LastLap(s)
      BY DEF RingOrder
    <3>3. CASE s = message_index /\ f = stage
      BY <3>3, <2>1, <2>2, <2>3, <3>1 DEF ADVANCE
    <3>4. CASE ~(s = message_index /\ f = stage)
      BY <3>4, <2>1, <2>3, <3>1, <3>2, <1>0 DEF ADVANCE
    <3> QED
      BY <3>3, <3>4
  <2> QED
    BY <2>1, <2>4 DEF RingOrder, ThisLap, LastLap
<1>3. CASE Advance
  <2>1. /\ message_id' = message_id + 1 /\ stage = 6 /\ stage' = 7
        /\ message_index' = NextSlot(message_index) /\ messages' = messages
    BY <1>3 DEF Advance, ADVANCE, NOTIFY
  <2>2. ASSUME NEW s \in Slot, NEW f \in Field
        PROVE  /\ f \in 1 .. 5 /\ s \in Nat /\ s < N
               /\ messages[s][f] = IF s <= message_index THEN message_id - message_index + s
                                   ELSE LastLap(s)
    <3>1. f \in 1 .. 5 /\ s \in Nat /\ s < N
      BY RingAssumption DEF Field, ID, LENGTH, Slot
    <3> QED
      BY <3>1, <2>1, <1>0 DEF RingOrder, ThisLap, ADVANCE
  <2>3. CASE message_index = N - 1
    BY <2>1, <2>2, <2>3, <1>0, RingAssumption DEF RingOrder, ThisLap, LastLap, NextSlot, ADVANCE
  <2>4. CASE message_index # N - 1
    BY <2>1, <2>2, <2>4, <1>0, RingAssumption DEF RingOrder, ThisLap, LastLap, NextSlot, ADVANCE
  <2> QED
    BY <2>3, <2>4
<1>4. CASE Notify
  BY <1>4, <1>0 DEF Notify, RingOrder, ThisLap, LastLap, Field, ID, LENGTH, IDLE, ADVANCE, NOTIFY
<1>5. CASE WriterExit
  BY <1>5, <1>0 DEF WriterExit, RingOrder, ThisLap, LastLap, Field, ID, LENGTH, IDLE, ADVANCE, EXITED
<1>6. ASSUME NEW w \in Worker, Work(w) \/ ClientEvent(w) \/ WorkerExit(w)
      PROVE  RingInv'
  BY <1>6, WorkersOnlyRead DEF RingOrder, ThisLap, LastLap
<1>7. CASE UNCHANGED vars
  BY <1>7 DEF vars, writerVars, RingOrder, ThisLap, LastLap
<1> QED
  BY <1>1, <1>2, <1>3, <1>4, <1>5, <1>6, <1>7 DEF Next, WriterNext

(* The stores of the writer are never seen out of order: at every moment   *)
(* the slots behind the index hold this lap's messages, those ahead of it  *)
(* the last lap's, and the slot at the index is filled field by field.     *)
THEOREM RingIsOrdered == Spec => []RingOrder
<1>1. Init => RingInv
  BY RingInvInit
<1>2. TypeInv /\ RingInv /\ [Next]_vars => RingInv'
  BY RingInvStep DEF TypeInv
<1>3. RingInv => RingOrder
  BY DEF RingInv
<1> QED
  BY <1>1, <1>2, <1>3, TypeInvCorrect, PTL DEF Spec

-------------------------------------------------------------------------------
LEMMA WakeupStep ==
  ASSUME TypeOK, TypeOK', NotifiesWorker, NoLostWakeup, [Next]_vars
  PROVE  NoLostWakeup'
<1> USE DEF NoLostWakeup, CHANNEL, ADVANCE, NOTIFY
<1>1. CASE Receive
  BY <1>1 DEF Receive, readerVars, ID, IDLE
<1>2. CASE Store
  <2>1. ASSUME NEW v \in Worker, message_send[v] # message_index \/ stage # ID
        PROVE  messages'[message_send[v]][ID] = messages[message_send[v]][ID]
    BY <1>2, <2>1 DEF Store, TypeOK
  <2>2. stage \in 1 .. 5 /\ stage' = stage + 1
    BY <1>2 DEF Store, Field, ID, LENGTH
  <2> QED
    BY <1>2, <2>1, <2>2 DEF Store, readerVars, ID
<1>3. CASE Advance
  BY <1>3 DEF Advance, readerVars, Worker
<1>4. CASE Notify
  <2> SUFFICES ASSUME NEW v \in Worker, pc[v] = "wait",
                      messages[message_send[v]][ID] > message_id_sent[v]
               PROVE  channel'[v] > 0 \/ (stage' = NOTIFY /\ target' <= v)
    BY <1>4 DEF Notify, readerVars
  <2>1. v \in Nat /\ v < W /\ target \in Nat /\ channel[v] \in Nat
    BY RingAssumption DEF Worker, TypeOK
  <2>2. CASE target = v
    BY <1>4, <2>1, <2>2, RingAssumption DEF Notify, TypeOK
  <2>3. CASE target # v
    BY <1>4, <2>1, <2>3, RingAssumption DEF Notify, TypeOK
  <2> QED
    BY <2>2, <2>3
<1>5. CASE WriterExit
  BY <1>5 DEF WriterExit, readerVars, IDLE
<1>6. ASSUME NEW w \in Worker, Work(w) \/ ClientEvent(w) \/ WorkerExit(w)
      PROVE  NoLostWakeup'
  <2>1. UNCHANGED <<messages, stage, target>>
    BY <1>6, WorkersOnlyRead
  <2>2. ASSUME NEW v \in Worker, v # w
        PROVE  UNCHANGED <<pc[v], message_send[v], message_id_sent[v], channel[v]>>
    BY <1>6, <2>2 DEF TypeOK, Work, ClientEvent, WorkerExit, ChannelEvent, Scan, Lookup,
       LoadLength, SendHead, SendBody, Resync, ReaderStep, GoTo
  <2>3. pc'[w] = "wait" =>
          /\ message_send'[w] = message_send[w]
          /\ message_id_sent'[w] = message_id_sent[w]
          /\ ~(messages[message_send[w]][ID] > message_id_sent[w])
    BY <1>6 DEF TypeOK, Work, ClientEvent, WorkerExit, ChannelEvent, Scan, Lookup,
       LoadLength, SendHead, SendBody, Resync, ReaderStep, GoTo
  <2> QED
    BY <2>1, <2>2, <2>3
<1>7. CASE UNCHANGED vars
  BY <1>7 DEF vars, writerVars, readerVars
<1> QED
  BY <1>1, <1>2, <1>3, <1>4, <1>5, <1>6, <1>7 DEF Next, WriterNext

(* No worker sleeps on a message it has not been told of, whatever the     *)
(* capacity of its channel: a command refused by a full channel is not     *)
(* needed.                                                                 *)
THEOREM NoWakeupIsLost == Spec => []NoLostWakeup
<1>1. Init => NoLostWakeup
  BY RingAssumption DEF Init, NoLostWakeup, Worker, Slot, Field, ID, LENGTH
<1>2. TypeInv /\ TypeInv' /\ NoLostWakeup /\ [Next]_vars => NoLostWakeup'
  BY WakeupStep DEF TypeInv
<1> QED
  BY <1>1, <1>2, TypeInvCorrect, PTL DEF Spec

-------------------------------------------------------------------------------
(* Whole laps of the ring, counted in messages.                            *)
Laps == {k * N : k \in Nat}

(* Closure of the laps under one lap more and one less, and the distance   *)
(* between two of them.                                                    *)
LEMMA LapArithmetic ==
  /\ 0 \in Laps
  /\ Laps \subseteq Nat
  /\ \A m \in Laps : m + N \in Laps
  /\ \A m \in Laps : m > 0 => m - N \in Laps /\ m >= N
  /\ \A m, n \in Laps : m < n => m + N <= n
  /\ \A m \in Laps : m % N = 0
<1>1. N \in Nat /\ N > 0
  BY RingAssumption
<1>2. 0 \in Laps
  <2>1. 0 * N = 0 /\ 0 \in Nat
    BY <1>1
  <2> QED
    BY <2>1 DEF Laps
<1>3. Laps \subseteq Nat
  BY <1>1 DEF Laps
<1>4. ASSUME NEW k \in Nat
      PROVE  k * N + N = (k + 1) * N /\ (k > 0 => k * N - N = (k - 1) * N /\ k * N >= N)
  BY <1>1
<1>5. \A m \in Laps : m + N \in Laps
  BY <1>4 DEF Laps
<1>6. \A m \in Laps : m > 0 => m - N \in Laps /\ m >= N
  <2> SUFFICES ASSUME NEW k \in Nat, k * N > 0
               PROVE  k * N - N \in Laps /\ k * N >= N
    BY DEF Laps
  <2>1. k > 0
    BY <1>1
  <2>2. k - 1 \in Nat
    BY <2>1
  <2> QED
    BY <2>1, <2>2, <1>4 DEF Laps
<1>7. \A m, n \in Laps : m < n => m + N <= n
  <2> SUFFICES ASSUME NEW j \in Nat, NEW k \in Nat, j * N < k * N
               PROVE  j * N + N <= k * N
    BY DEF Laps
  <2>1. j < k
    BY <1>1
  <2>2. (j + 1) * N <= k * N
    BY <1>1, <2>1
  <2> QED
    BY <2>2, <1>4
<1>8. \A m \in Laps : m % N = 0
  BY <1>1 DEF Laps
<1> QED
  BY <1>2, <1>3, <1>5, <1>6, <1>7, <1>8

(* Slots and ids by laps: the writer stands a number of whole laps after   *)
(* slot 0, a reader's cursor likewise, and a reader inside a slot has seen *)
(* an id there that is new to it.                                          *)
WriterInStep == message_id - message_index - 1 \in Laps
ReaderInStep ==
  \A w \in Worker :
    /\ message_id_sent[w] - message_send[w] \in Laps
    /\ Reading(w) => messages[message_send[w]][ID] > message_id_sent[w]

LapInv == WriterInStep /\ ReaderInStep

(* The id of a slot: 0, or whole laps past the slot's own number; and no   *)
(* id is visible that the writer has not published.                        *)
LEMMA SlotId ==
  ASSUME TypeOK, RingInv, WriterInStep, NEW s \in Slot
  PROVE  /\ messages[s][ID] # 0 => messages[s][ID] - s - 1 \in Laps
         /\ messages[s][ID] <= Published
<1>1. /\ s \in Nat /\ s < N /\ N \in Nat /\ message_index \in Nat /\ message_index < N
      /\ message_id \in Nat /\ message_id > message_index /\ ID \in Field
  BY RingAssumption DEF Slot, TypeOK, RingInv, IdAheadOfIndex, Field, ID, LENGTH
<1>2. messages[s][ID] = IF \/ s < message_index
                           \/ s = message_index /\ stage \in CHANNEL .. ADVANCE
                        THEN ThisLap(s) ELSE LastLap(s)
  BY <1>1 DEF RingInv, RingOrder, ID, CHANNEL
<1> DEFINE base == message_id - message_index - 1
<1>3. base \in Laps /\ base \in Nat
  BY LapArithmetic DEF WriterInStep
<1>4. ThisLap(s) - s - 1 = base /\ ThisLap(s) = base + s + 1
  BY <1>1 DEF ThisLap
<1> HIDE DEF base
<1>5. CASE messages[s][ID] = ThisLap(s) /\ (\/ s < message_index
                                            \/ s = message_index /\ stage \in CHANNEL .. ADVANCE)
  BY <1>1, <1>3, <1>4, <1>5 DEF Published, base, ThisLap
<1>6. CASE messages[s][ID] = LastLap(s)
  <2>1. CASE ThisLap(s) > N
    <3>1. base > 0
      BY <2>1, <1>1, <1>3, <1>4
    <3>2. base - N \in Laps
      BY <3>1, <1>3, LapArithmetic
    <3>3. messages[s][ID] = ThisLap(s) - N
      BY <1>6, <2>1 DEF LastLap
    <3>4. messages[s][ID] - s - 1 = base - N
      BY <3>3, <1>4, <1>1, <1>3
    <3>5. messages[s][ID] <= message_id - 1
      BY <3>3, <1>1 DEF ThisLap
    <3> QED
      BY <3>2, <3>4, <3>5, <1>1, <3>3 DEF Published, ThisLap
  <2>2. CASE ~(ThisLap(s) > N)
    BY <1>6, <2>2, <1>1 DEF LastLap, Published
  <2> QED
    BY <2>1, <2>2
<1> QED
  BY <1>2, <1>5, <1>6

(* What one turn of the reader's loop does to its cursor: the new id is    *)
(* published, larger than the old one, and follows it at once or by more   *)
(* than a whole ring.                                                      *)
LEMMA ResyncMovesOn ==
  ASSUME TypeOK, RingInv, LapInv, NEW w \in Worker, Resync(w)
  PROVE  /\ message_id_sent' = [message_id_sent EXCEPT ![w] = messages[message_send[w]][ID]]
         /\ message_id_sent'[w] \in (message_id_sent[w] + 1) .. Published
         /\ \/ message_id_sent'[w] = message_id_sent[w] + 1
            \/ message_id_sent'[w] >= message_id_sent[w] + 1 + N
         /\ message_id_sent'[w] - message_send'[w] \in Laps
<1> DEFINE s == message_send[w]
           x == messages[s][ID]
           d == message_id_sent[w]
<1>1. s \in Slot /\ s \in Nat /\ s < N /\ N \in Nat /\ N > 0
  BY RingAssumption DEF Slot, TypeOK
<1>2. x \in Nat /\ d \in Nat
  BY LoadIsNat DEF TypeOK
<1>3. x > d /\ d - s \in Laps
  BY DEF Resync, ReaderStep, Reading, LapInv, ReaderInStep
<1>4. x - s - 1 \in Laps /\ x <= Published
  BY <1>1, <1>2, <1>3, SlotId DEF LapInv
<1>5. message_id_sent' = [message_id_sent EXCEPT ![w] = x] /\ message_id_sent'[w] = x
  BY DEF Resync, TypeOK
<1>6. message_send'[w] = NextSlot(s)
  BY DEF Resync, TypeOK
<1> HIDE DEF s, x, d
<1>7. x = d + 1 \/ x >= d + 1 + N
  <2>1. x - s - 1 >= d - s
    BY <1>1, <1>2, <1>3
  <2>2. CASE x - s - 1 = d - s
    BY <2>2, <1>1, <1>2
  <2>3. CASE x - s - 1 > d - s
    <3>1. d - s + N <= x - s - 1
      BY <2>3, <1>3, <1>4, LapArithmetic
    <3> QED
      BY <3>1, <1>1, <1>2
  <2> QED
    BY <2>1, <2>2, <2>3, <1>1, <1>2
<1>8. x - NextSlot(s) \in Laps
  <2>1. CASE s = N - 1
    <3>1. (x - s - 1) + N \in Laps
      BY <1>4, LapArithmetic
    <3>2. (x - s - 1) + N = x /\ NextSlot(s) = 0 /\ x - 0 = x
      BY <2>1, <1>1, <1>2 DEF NextSlot
    <3> QED
      BY <3>1, <3>2
  <2>2. CASE s # N - 1
    <3>1. x - NextSlot(s) = x - s - 1
      BY <2>2, <1>1, <1>2 DEF NextSlot
    <3> QED
      BY <3>1, <1>4
  <2> QED
    BY <2>1, <2>2
<1>9. Published \in Int
  BY DEF Published, TypeOK
<1> QED
  BY <1>2, <1>3, <1>4, <1>5, <1>6, <1>7, <1>8, <1>9 DEF s, x, d

LEMMA LapInvStep ==
  ASSUME TypeOK, TypeOK', RingInv, LapInv, [Next]_vars
  PROVE  LapInv'
<1> USE DEF LapInv
<1>1. CASE Store
  <2>1. stage \in 1 .. 5 /\ UNCHANGED <<message_index, message_id>>
    BY <1>1 DEF Store, Field, ID, LENGTH
  <2>2. ASSUME NEW v \in Worker
        PROVE  messages'[message_send[v]][ID] >= messages[message_send[v]][ID]
    <3>1. messages[message_send[v]][ID] <= message_id /\ messages[message_send[v]][ID] \in Nat
      <4>1. message_send[v] \in Slot
        BY DEF TypeOK
      <4>2. messages[message_send[v]][ID] <= Published /\ messages[message_send[v]][ID] \in Nat
        BY <4>1, SlotId, LoadIsNat
      <4> QED
        BY <4>2 DEF Published, TypeOK
    <3>2. messages'[message_send[v]][ID] \in {messages[message_send[v]][ID], message_id}
      BY <1>1 DEF Store, TypeOK
    <3> QED
      BY <3>1, <3>2 DEF TypeOK
  <2>3. ASSUME NEW v \in Worker
        PROVE  messages'[message_send[v]][ID] \in Nat /\ messages[message_send[v]][ID] \in Nat
               /\ message_id_sent[v] \in Nat
    <3>1. message_send[v] \in Slot /\ ID \in Field /\ message_id_sent[v] \in Nat
      BY DEF TypeOK, Field, ID, LENGTH
    <3> QED
      BY <3>1 DEF TypeOK
  <2> QED
    BY <1>1, <2>1, <2>2, <2>3 DEF WriterInStep, ReaderInStep, Store, readerVars, Reading
<1>2. CASE Advance
  <2>1. message_id' = message_id + 1 /\ message_index' = NextSlot(message_index)
    BY <1>2 DEF Advance
  <2>2. /\ message_index \in Nat /\ message_index < N /\ message_id \in Nat /\ N \in Nat
    BY RingAssumption DEF TypeOK, Slot
  <2>3. CASE message_index = N - 1
    <3>1. (message_id - message_index - 1) + N \in Laps
      BY LapArithmetic DEF WriterInStep
    <3>2. message_id' - message_index' - 1 = (message_id - message_index - 1) + N
      BY <2>1, <2>2, <2>3 DEF NextSlot
    <3> QED
      BY <3>1, <3>2, <1>2 DEF WriterInStep, ReaderInStep, Advance, readerVars, Reading
  <2>4. CASE message_index # N - 1
    <3>1. message_id' - message_index' - 1 = message_id - message_index - 1
      BY <2>1, <2>2, <2>4 DEF NextSlot
    <3> QED
      BY <3>1, <1>2 DEF WriterInStep, ReaderInStep, Advance, readerVars, Reading
  <2> QED
    BY <2>3, <2>4
<1>3. CASE Receive \/ Notify \/ WriterExit
  BY <1>3 DEF Receive, Notify, WriterExit, WriterInStep, ReaderInStep, readerVars, Reading
<1>4. ASSUME NEW w \in Worker, Work(w) \/ ClientEvent(w) \/ WorkerExit(w)
      PROVE  LapInv'
  <2>1. UNCHANGED <<messages, message_index, message_id>>
    BY <1>4, WorkersOnlyRead
  <2>2. ASSUME NEW v \in Worker, v # w
        PROVE  UNCHANGED <<pc[v], message_send[v], message_id_sent[v]>>
    BY <1>4, <2>2 DEF TypeOK, Work, ClientEvent, WorkerExit, ChannelEvent, Scan, Lookup,
       LoadLength, SendHead, SendBody, Resync, ReaderStep, GoTo
  <2>3. CASE Resync(w)
    <3>1. ~Reading(w)'
      BY <2>3 DEF Resync, Reading, GoTo, TypeOK
    <3>2. message_id_sent'[w] - message_send'[w] \in Laps
      BY <2>3, ResyncMovesOn
    <3> QED
      BY <2>1, <2>2, <3>1, <3>2 DEF WriterInStep, ReaderInStep, Reading
  <2>4. CASE ~Resync(w)
    <3>1. message_send' = message_send /\ message_id_sent' = message_id_sent
      BY <1>4, <2>4 DEF Work, ClientEvent, WorkerExit, ChannelEvent, Scan, Lookup,
         LoadLength, SendHead, SendBody
    <3>2. Reading(w)' => messages[message_send[w]][ID] > message_id_sent[w]
      BY <1>4, <2>4 DEF ReaderInStep, Reading, TypeOK, Work, ClientEvent, WorkerExit,
         ChannelEvent, Scan, Lookup, LoadLength, SendHead, SendBody, ReaderStep, GoTo
    <3> QED
      BY <2>1, <2>2, <3>1, <3>2 DEF WriterInStep, ReaderInStep, Reading
  <2> QED
    BY <2>3, <2>4
<1>5. CASE UNCHANGED vars
  BY <1>5 DEF vars, writerVars, readerVars, WriterInStep, ReaderInStep, Reading
<1> QED
  BY <1>1, <1>2, <1>3, <1>4, <1>5 DEF Next, WriterNext

LEMMA LapInvCorrect == Spec => [](TypeInv /\ RingInv /\ LapInv)
<1>1. Init => LapInv
  <2> SUFFICES ASSUME Init
               PROVE  LapInv
    OBVIOUS
  <2>1. message_id - message_index - 1 = 0
    BY DEF Init
  <2>2. \A w \in Worker : message_id_sent[w] - message_send[w] = 0 /\ ~Reading(w)
    BY DEF Init, Reading
  <2> QED
    BY <2>1, <2>2, LapArithmetic DEF LapInv, WriterInStep, ReaderInStep
<1>2. TypeInv /\ TypeInv' /\ RingInv /\ LapInv /\ [Next]_vars => LapInv'
  BY LapInvStep DEF TypeInv
<1>3. Init => RingInv
  BY RingInvInit
<1>4. TypeInv /\ RingInv /\ [Next]_vars => RingInv'
  BY RingInvStep DEF TypeInv
<1> QED
  BY <1>1, <1>2, <1>3, <1>4, TypeInvCorrect, PTL DEF Spec

(* A reader's slot always belongs to the id it is waiting for, also after  *)
(* the writer has lapped it any number of times.                           *)
THEOREM CursorStaysInStep == Spec => []CursorInStep
<1>1. LapInv => CursorInStep
  BY LapArithmetic DEF LapInv, ReaderInStep, CursorInStep
<1> QED
  BY <1>1, LapInvCorrect, PTL

-------------------------------------------------------------------------------
(* The handler has loaded nothing yet when it looks the channel up.        *)
NothingLoadedYet ==
  \A w \in Worker : pc[w] \in {"channel", "length"} => frame[w].length = 0

FrameInv == UndisturbedFrameIsWhole /\ NothingLoadedYet

(* A slot the writer is not inside of holds the same message everywhere.   *)
LEMMA QuietSlotIsUniform ==
  ASSUME TypeOK, RingInv, NEW s \in Slot, ~InSlot(s)
  PROVE  \A f \in Field : messages[s][f] = messages[s][ID]
<1> SUFFICES ASSUME NEW f \in Field
             PROVE  messages[s][f] = messages[s][ID]
  OBVIOUS
<1>1. f \in 1 .. 5 /\ ID \in Field /\ stage \in Nat /\ message_index \in Int /\ s \in Int
  BY RingAssumption DEF Field, ID, LENGTH, TypeOK, IDLE, EXITED, Slot
<1>2. ~(s = message_index /\ stage \in 2 .. 5)
  BY DEF InSlot, CHANNEL, LENGTH
<1>3. (s = message_index /\ stage \in f + 1 .. ADVANCE)
        <=> (s = message_index /\ stage \in ID + 1 .. ADVANCE)
  BY <1>1, <1>2 DEF ID, ADVANCE
<1> QED
  BY <1>1, <1>3 DEF RingInv, RingOrder

LEMMA FrameInvStep ==
  ASSUME TypeOK, RingInv, FrameInv, [Next]_vars
  PROVE  FrameInv'
<1> USE DEF FrameInv, UndisturbedFrameIsWhole, NothingLoadedYet
<1>1. CASE Store
  <2>1. ASSUME NEW w \in Worker, Reading(w), ~touched'[w]
        PROVE  ~touched[w] /\ messages'[message_send[w]] = messages[message_send[w]]
    BY <1>1, <2>1 DEF Store, TypeOK
  <2> QED
    BY <1>1, <2>1 DEF Store, readerVars, Reading
<1>2. CASE Receive \/ Advance \/ Notify \/ WriterExit
  BY <1>2 DEF Receive, Advance, Notify, WriterExit, readerVars, Reading
<1>3. ASSUME NEW w \in Worker, Work(w) \/ ClientEvent(w) \/ WorkerExit(w)
      PROVE  FrameInv'
  <2>1. messages' = messages
    BY <1>3, WorkersOnlyRead
  <2>2. ASSUME NEW v \in Worker, v # w
        PROVE  UNCHANGED <<pc[v], message_send[v], frame[v], touched[v]>>
    BY <1>3, <2>2 DEF TypeOK, Work, ClientEvent, WorkerExit, ChannelEvent, Scan, Lookup,
       LoadLength, SendHead, SendBody, Resync, ReaderStep, GoTo
  <2> SUFFICES ASSUME Reading(w)'
               PROVE  /\ ~touched'[w] =>
                           /\ \A f \in Field : messages[message_send'[w]][f] = frame'[w].id
                           /\ pc'[w] \in {"head", "body"} => frame'[w].length = frame'[w].id
                           /\ pc'[w] = "body" => frame'[w].head = frame'[w].id
                           /\ pc'[w] = "resync" /\ frame'[w].length # 0 =>
                                /\ frame'[w].length = frame'[w].id
                                /\ frame'[w].head = frame'[w].id
                                /\ frame'[w].body = frame'[w].id
                      /\ pc'[w] \in {"channel", "length"} => frame'[w].length = 0
    <3> HIDE DEF UndisturbedFrameIsWhole, NothingLoadedYet
    <3>1. NothingLoadedYet'
      BY <2>2 DEF NothingLoadedYet, Reading
    <3>2. UndisturbedFrameIsWhole'
      BY <2>1, <2>2 DEF UndisturbedFrameIsWhole, Reading
    <3> QED
      BY <3>1, <3>2
  <2>3. /\ ID \in Field /\ LENGTH \in Field /\ HEAD \in Field /\ BODY \in Field
        /\ message_send[w] \in Slot
    BY DEF TypeOK, Field, ID, LENGTH, HEAD, BODY
  <2>4. CASE Scan(w)
    <3>1. /\ pc'[w] = "channel" /\ message_send' = message_send
          /\ frame'[w].id = messages[message_send[w]][ID] /\ frame'[w].length = 0
          /\ touched'[w] = InSlot(message_send[w])
      BY <2>4 DEF Scan, ReaderStep, GoTo, TypeOK, Reading, NoFrame
    <3>2. ~InSlot(message_send[w]) =>
            \A f \in Field : messages[message_send[w]][f] = messages[message_send[w]][ID]
      BY <2>3, QuietSlotIsUniform
    <3> QED
      BY <3>1, <3>2
  <2>5. CASE Lookup(w)
    <3>1. /\ pc[w] = "channel" /\ pc'[w] \in {"length", "resync"}
          /\ UNCHANGED <<message_send, frame, touched>>
      BY <2>5 DEF Lookup, ReaderStep, GoTo, TypeOK
    <3> QED
      BY <3>1 DEF Reading
  <2>6. CASE LoadLength(w)
    <3>1. /\ pc[w] = "length" /\ pc'[w] \in {"head", "resync"}
          /\ UNCHANGED <<message_send, touched>>
          /\ frame'[w].length = messages[message_send[w]][LENGTH]
          /\ frame'[w].id = frame[w].id
          /\ pc'[w] = "resync" => frame'[w].length = 0
      BY <2>6 DEF LoadLength, ReaderStep, GoTo, TypeOK
    <3> QED
      BY <2>3, <3>1 DEF Reading
  <2>7. CASE SendHead(w)
    <3>1. /\ pc[w] = "head" /\ pc'[w] = "body"
          /\ UNCHANGED <<message_send, touched>>
          /\ frame'[w].head = messages[message_send[w]][HEAD]
          /\ frame'[w].id = frame[w].id /\ frame'[w].length = frame[w].length
      BY <2>7 DEF SendHead, ReaderStep, GoTo, TypeOK
    <3> QED
      BY <2>3, <3>1 DEF Reading
  <2>8. CASE SendBody(w)
    <3>1. /\ pc[w] = "body" /\ pc'[w] = "resync"
          /\ UNCHANGED <<message_send, touched>>
          /\ frame'[w].body = messages[message_send[w]][BODY]
          /\ frame'[w].id = frame[w].id /\ frame'[w].length = frame[w].length
          /\ frame'[w].head = frame[w].head
      BY <2>8 DEF SendBody, ReaderStep, GoTo, TypeOK
    <3> QED
      BY <2>3, <3>1 DEF Reading
  <2>9. CASE ChannelEvent(w) \/ ClientEvent(w) \/ Resync(w) \/ WorkerExit(w)
    BY <2>9 DEF ChannelEvent, ClientEvent, Resync, WorkerExit, ReaderStep, GoTo, TypeOK, Reading
  <2> QED
    BY <1>3, <2>4, <2>5, <2>6, <2>7, <2>8, <2>9 DEF Work
<1>4. CASE UNCHANGED vars
  BY <1>4 DEF vars, writerVars, readerVars, Reading
<1> QED
  BY <1>1, <1>2, <1>3, <1>4 DEF Next, WriterNext

(* What the missing lock costs is only this: a reader gets a broken        *)
(* message, or none, when the writer stored into the very slot while the   *)
(* reader was at it.  In every other case the message is whole.            *)
THEOREM UndisturbedFramesAreWhole == Spec => []UndisturbedFrameIsWhole
<1>1. Init => FrameInv
  BY DEF Init, FrameInv, UndisturbedFrameIsWhole, NothingLoadedYet, Reading
<1>2. TypeInv /\ RingInv /\ FrameInv /\ [Next]_vars => FrameInv'
  BY FrameInvStep DEF TypeInv
<1>3. FrameInv => UndisturbedFrameIsWhole
  BY DEF FrameInv
<1> QED
  BY <1>1, <1>2, <1>3, LapInvCorrect, PTL DEF Spec

-------------------------------------------------------------------------------
(* The ring implements the log (its safety part): ids are passed in order  *)
(* and a reader leaves out messages only when the writer is a whole ring   *)
(* ahead of it.                                                            *)
THEOREM ImplementsLogSafety == Spec => Log!Safe
<1> USE DEF Published, CHANNEL, ADVANCE
<1>1. Init => Log!Init
  <2> SUFFICES ASSUME Init
               PROVE  Log!Init
    OBVIOUS
  <2>1. Published = 0
    BY DEF Init, IDLE
  <2>2. {w \in Worker : pc[w] = "exited"} = {}
    BY DEF Init
  <2> QED
    BY <2>1, <2>2 DEF Init, Log!Init
<1>2. TypeInv /\ RingInv /\ LapInv /\ [Next]_vars => [Log!Next]_Log!logVars
  <2> SUFFICES ASSUME TypeOK, NotifiesWorker, RingInv, LapInv, [Next]_vars
               PROVE  [Log!Next]_Log!logVars
    BY DEF TypeInv
  <2> DEFINE out == {v \in Worker : pc[v] = "exited"}
  <2>1. CASE Store
    <3>1. stage \in 1 .. 5 /\ stage' = stage + 1 /\ message_id' = message_id
      BY <2>1 DEF Store, Field, ID, LENGTH
    <3>2. UNCHANGED <<message_id_sent, pc>>
      BY <2>1 DEF Store, readerVars
    <3>3. CASE stage = 1
      <4>1. Published' = Published + 1
        BY <3>1, <3>3 DEF TypeOK
      <4> QED
        BY <3>2, <4>1 DEF Log!Next, Log!Publish
    <3>4. CASE stage # 1
      <4>1. Published' = Published
        BY <3>1, <3>4
      <4> QED
        BY <3>2, <4>1 DEF Log!logVars
    <3> QED
      BY <3>3, <3>4
  <2>2. CASE Receive \/ Advance \/ Notify \/ WriterExit
    <3>1. UNCHANGED <<message_id_sent, pc>>
      BY <2>2 DEF Receive, Advance, Notify, WriterExit, readerVars
    <3>2. Published' = Published
      BY <2>2 DEF Receive, Advance, Notify, WriterExit, TypeOK, ID, IDLE, NOTIFY, EXITED
    <3> QED
      BY <3>1, <3>2 DEF Log!logVars
  <2>3. ASSUME NEW w \in Worker, Work(w) \/ ClientEvent(w) \/ WorkerExit(w)
        PROVE  [Log!Next]_Log!logVars
    <3>1. Published' = Published
      BY <2>3, WorkersOnlyRead
    <3>2. CASE Resync(w)
      <4>1. pc[w] = "resync" /\ pc' = [pc EXCEPT ![w] = "scan"]
        BY <3>2 DEF Resync, ReaderStep, GoTo
      <4>2. out' = out /\ w \notin out
        BY <4>1 DEF TypeOK
      <4>3. Log!Pass(w)
        <5>1. \E m \in (message_id_sent[w] + 1) .. Published :
                /\ m = message_id_sent[w] + 1 \/ m >= message_id_sent[w] + 1 + N
                /\ message_id_sent' = [message_id_sent EXCEPT ![w] = m]
          <6>1. message_id_sent' = [message_id_sent EXCEPT ![w] = message_id_sent'[w]]
            BY <3>2 DEF Resync, TypeOK
          <6> QED
            BY <6>1, <3>2, ResyncMovesOn
        <5> QED
          BY <3>1, <4>2, <5>1 DEF Log!Pass
      <4> QED
        BY <4>3 DEF Log!Next
    <3>3. CASE WorkerExit(w)
      <4>1. out' = out \cup {w} /\ message_id_sent' = message_id_sent
        BY <3>3 DEF WorkerExit, ReaderStep, GoTo, TypeOK
      <4> QED
        BY <3>1, <4>1 DEF Log!Next, Log!Stop
    <3>4. CASE ~Resync(w) /\ ~WorkerExit(w)
      <4>1. message_id_sent' = message_id_sent
        BY <2>3, <3>4 DEF Work, ClientEvent, ChannelEvent, Scan, Lookup, LoadLength,
           SendHead, SendBody
      <4>2. out' = out
        BY <2>3, <3>4 DEF TypeOK, Work, ClientEvent, ChannelEvent, Scan, Lookup,
           LoadLength, SendHead, SendBody, ReaderStep, GoTo
      <4> QED
        BY <3>1, <4>1, <4>2 DEF Log!logVars
    <3> QED
      BY <3>2, <3>3, <3>4
  <2>4. CASE UNCHANGED vars
    BY <2>4 DEF vars, writerVars, readerVars, Log!logVars
  <2> QED
    BY <2>1, <2>2, <2>3, <2>4 DEF Next, WriterNext
<1> QED
  BY <1>1, <1>2, LapInvCorrect, PTL DEF Spec, Log!Safe

===============================================================================
