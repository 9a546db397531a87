------------------------------ MODULE MessageRing ------------------------------
(***************************************************************************)
(* The broadcast of messages from the websocket message process to the     *)
(* workers: a ring of N slots in MAP_SHARED memory (core/ngx_cycle.c), one *)
(* writer (ngx_process_websocket_messages), any number of readers          *)
(* (ngx_websocket_process_messages), no lock, and one socketpair channel   *)
(* per worker that only carries the wake-up NGX_CMD_NEW_MESSAGE.           *)
(*                                                                         *)
(* A slot is modelled by the number of the message whose store was the     *)
(* last to reach each of its fields, 0 for the zero page mmap() returned.  *)
(* Each store and each load of shared memory is a step of its own.         *)
(***************************************************************************)
EXTENDS Integers

CONSTANTS N,            \* NGX_WEBSOCKET_MESSAGE_N
          W,            \* NGX_PROCESS_NUM
          ChannelCap,   \* commands a channel holds before sendmsg() says EAGAIN
          MaxMessages   \* bound: messages redis delivers in a run

ASSUME RingAssumption ==
  /\ N \in Nat \ {0}
  /\ W \in Nat \ {0}
  /\ ChannelCap \in Nat \ {0}
  /\ MaxMessages \in Nat

VARIABLES
  messages,             \* the shared ring
  message_index,        \* writer: ngx_message_index
  message_id,           \* writer: ngx_message_id
  stage,                \* writer: what it does next
  target,               \* writer: process table slot it notifies next
  channel,              \* channel[w]: commands w has not read yet
  pc,                   \* pc[w]: what worker w does next
  message_send,         \* pc[w]: slot of ngx_websocket_message_send
  message_id_sent,      \* ngx_websocket_message_id_sent of w
  registered,           \* registered[w]: w's hash table knows channel 1
  frame,                \* what w has read of the message at hand
  touched               \* history: the writer was in that slot meanwhile

writerVars == <<message_index, message_id, stage, target>>
readerVars == <<pc, message_send, message_id_sent, registered, frame>>
vars == <<messages, writerVars, channel, readerVars, touched>>

Slot   == 0 .. N - 1
Worker == 0 .. W - 1

(* The fields of ngx_websocket_message_t, in the order they are stored.    *)
ID      == 1
CHANNEL == 2
HEAD    == 3            \* websocket frame header in message[]
BODY    == 4            \* payload in message[]
LENGTH  == 5
Field   == ID .. LENGTH

(* The other stages of the writer.                                         *)
IDLE    == 0            \* in recv(), or parsing
ADVANCE == 6
NOTIFY  == 7
EXITED  == 8

NoFrame == [id |-> 0, length |-> 0, head |-> 0, body |-> 0]

(* Mutant: the wrap of the index at the end of the ring is forgotten.      *)
NextSlot_NoWrap(s) == s + 1

NextSlot(s) == IF s = N - 1 THEN 0 ELSE s + 1      \* messages[s].next

Reading(w) == pc[w] \in {"channel", "length", "head", "body", "resync"}

InSlot(s) == message_index = s /\ stage \in CHANNEL .. LENGTH

Init ==
  /\ messages = [s \in Slot |-> [f \in Field |-> 0]]
  /\ message_index = 0
  /\ message_id = 1
  /\ stage = IDLE
  /\ target = 0
  /\ channel = [w \in Worker |-> 0]
  /\ pc = [w \in Worker |-> "wait"]
  /\ message_send = [w \in Worker |-> 0]
  /\ message_id_sent = [w \in Worker |-> 0]
  /\ registered = [w \in Worker |-> FALSE]
  /\ frame = [w \in Worker |-> NoFrame]
  /\ touched = [w \in Worker |-> FALSE]

-------------------------------------------------------------------------------
(* The writer: the websocket message process.                              *)

(* A whole publication has been received and parsed.                       *)
Receive ==
  /\ stage = IDLE
  /\ message_id <= MaxMessages
  /\ stage' = ID
  /\ UNCHANGED <<messages, message_index, message_id, target, channel,
                 readerVars, touched>>

(* Mutant: the slot is looked up again for the length, after the index has *)
(* moved.                                                                  *)
Store_LateLength ==
  /\ stage \in Field
  /\ LET s == IF stage = LENGTH THEN NextSlot(message_index) ELSE message_index
     IN messages' = [messages EXCEPT ![s][stage] = message_id]
  /\ stage' = stage + 1
  /\ touched' = [w \in Worker |->
                   touched[w] \/ (Reading(w) /\ message_send[w] = message_index)]
  /\ UNCHANGED <<message_index, message_id, target, channel, readerVars>>

(* One store into the slot: the id goes first, the length last.            *)
Store ==
  /\ stage \in Field
  /\ messages' = [messages EXCEPT ![message_index][stage] = message_id]
  /\ stage' = stage + 1
  /\ touched' = [w \in Worker |->
                   touched[w] \/ (Reading(w) /\ message_send[w] = message_index)]
  /\ UNCHANGED <<message_index, message_id, target, channel, readerVars>>

(* Mutant: the id starts again with each lap, as the index does.           *)
Advance_IdPerLap ==
  /\ stage = ADVANCE
  /\ message_id' = IF message_index = N - 1 THEN 1 ELSE message_id + 1
  /\ message_index' = NextSlot(message_index)
  /\ target' = 0
  /\ stage' = NOTIFY
  /\ UNCHANGED <<messages, channel, readerVars, touched>>

Advance ==
  /\ stage = ADVANCE
  /\ message_id' = message_id + 1
  /\ message_index' = NextSlot(message_index)
  /\ target' = 0
  /\ stage' = NOTIFY
  /\ UNCHANGED <<messages, channel, readerVars, touched>>

(* Mutant: the loop over the workers ends at the first channel that is     *)
(* full.                                                                   *)
Notify_StopsAtFull ==
  /\ stage = NOTIFY
  /\ channel' = [channel EXCEPT ![target] = IF @ < ChannelCap THEN @ + 1 ELSE @]
  /\ target' = target + 1
  /\ stage' = IF target' = W \/ channel[target] = ChannelCap THEN IDLE ELSE NOTIFY
  /\ UNCHANGED <<messages, message_index, message_id, readerVars, touched>>

(* ngx_websocket_new_message: one sendmsg() per worker, a full channel     *)
(* refuses the command and the loop goes on.                               *)
Notify ==
  /\ stage = NOTIFY
  /\ channel' = [channel EXCEPT ![target] = IF @ < ChannelCap THEN @ + 1 ELSE @]
  /\ target' = target + 1
  /\ stage' = IF target' = W THEN IDLE ELSE NOTIFY
  /\ UNCHANGED <<messages, message_index, message_id, readerVars, touched>>

(* exit(2): a signal, redis out of reach, or a reply it cannot parse.      *)
WriterExit ==
  /\ stage = IDLE
  /\ stage' = EXITED
  /\ UNCHANGED <<messages, message_index, message_id, target, channel,
                 readerVars, touched>>

-------------------------------------------------------------------------------
(* A worker: ngx_process_events_and_timers and what it ends with,          *)
(* ngx_websocket_process_messages.                                         *)

GoTo(w, label) == pc' = [pc EXCEPT ![w] = label]

ReaderStep(w, from) ==
  /\ pc[w] = from
  /\ UNCHANGED <<messages, writerVars>>

(* epoll_wait() reports the channel; ngx_channel_handler reads it dry.  A  *)
(* client of the same batch may be the first to register for channel 1.    *)
ChannelEvent(w) ==
  /\ ReaderStep(w, "wait")
  /\ channel[w] > 0
  /\ channel' = [channel EXCEPT ![w] = 0]
  /\ \E r \in {registered[w], TRUE} : registered' = [registered EXCEPT ![w] = r]
  /\ GoTo(w, "scan")
  /\ UNCHANGED <<message_send, message_id_sent, frame, touched>>

(* epoll_wait() reports clients only.                                      *)
ClientEvent(w) ==
  /\ ReaderStep(w, "wait")
  /\ channel[w] = 0
  /\ \E r \in {registered[w], TRUE} : registered' = [registered EXCEPT ![w] = r]
  /\ GoTo(w, "scan")
  /\ UNCHANGED <<channel, message_send, message_id_sent, frame, touched>>

(* Mutant: any id other than the last one sent is taken for a new one.     *)
Scan_AnyOtherId(w) ==
  /\ ReaderStep(w, "scan")
  /\ LET id == messages[message_send[w]][ID]
     IN IF id # message_id_sent[w]
        THEN /\ GoTo(w, "channel")
             /\ frame' = [frame EXCEPT ![w] = [NoFrame EXCEPT !.id = id]]
             /\ touched' = [touched EXCEPT ![w] = InSlot(message_send[w])]
        ELSE /\ GoTo(w, "wait")
             /\ UNCHANGED <<frame, touched>>
  /\ UNCHANGED <<channel, message_send, message_id_sent, registered>>

(* The condition of the while loop.                                        *)
Scan(w) ==
  /\ ReaderStep(w, "scan")
  /\ LET id == messages[message_send[w]][ID]
     IN IF id > message_id_sent[w]
        THEN /\ GoTo(w, "channel")
             /\ frame' = [frame EXCEPT ![w] = [NoFrame EXCEPT !.id = id]]
             /\ touched' = [touched EXCEPT ![w] = InSlot(message_send[w])]
        ELSE /\ GoTo(w, "wait")
             /\ UNCHANGED <<frame, touched>>
  /\ UNCHANGED <<channel, message_send, message_id_sent, registered>>

(* Load channel_id and look its queue up.  Channel 0, the one of a slot    *)
(* never filled, is in no table.  A known queue may be empty.              *)
Lookup(w) ==
  /\ ReaderStep(w, "channel")
  /\ \/ /\ messages[message_send[w]][CHANNEL] # 0
        /\ registered[w]
        /\ GoTo(w, "length")
     \/ GoTo(w, "resync")
  /\ UNCHANGED <<channel, message_send, message_id_sent, registered, frame, touched>>

(* ngx_websocket_message_handler: load the length, then send() copies the  *)
(* header and the payload out of the slot.                                 *)
LoadLength(w) ==
  /\ ReaderStep(w, "length")
  /\ LET length == messages[message_send[w]][LENGTH]
     IN /\ frame' = [frame EXCEPT ![w].length = length]
        /\ GoTo(w, IF length = 0 THEN "resync" ELSE "head")
  /\ UNCHANGED <<channel, message_send, message_id_sent, registered, touched>>

SendHead(w) ==
  /\ ReaderStep(w, "head")
  /\ frame' = [frame EXCEPT ![w].head = messages[message_send[w]][HEAD]]
  /\ GoTo(w, "body")
  /\ UNCHANGED <<channel, message_send, message_id_sent, registered, touched>>

SendBody(w) ==
  /\ ReaderStep(w, "body")
  /\ frame' = [frame EXCEPT ![w].body = messages[message_send[w]][BODY]]
  /\ GoTo(w, "resync")
  /\ UNCHANGED <<channel, message_send, message_id_sent, registered, touched>>

(* Mutant: a message that was not sent is marked as seen, but the cursor   *)
(* stays where it is.                                                      *)
Resync_UnsentStays(w) ==
  /\ ReaderStep(w, "resync")
  /\ message_id_sent' = [message_id_sent EXCEPT ![w] = messages[message_send[w]][ID]]
  /\ message_send' = [message_send EXCEPT ![w] =
                        IF frame[w].body = 0 THEN @ ELSE NextSlot(@)]
  /\ GoTo(w, "scan")
  /\ frame' = [frame EXCEPT ![w] = NoFrame]
  /\ touched' = [touched EXCEPT ![w] = FALSE]
  /\ UNCHANGED <<channel, registered>>

(* The id is loaded a second time, it is not the one Scan compared.        *)
Resync(w) ==
  /\ ReaderStep(w, "resync")
  /\ message_id_sent' = [message_id_sent EXCEPT ![w] = messages[message_send[w]][ID]]
  /\ message_send' = [message_send EXCEPT ![w] = NextSlot(message_send[w])]
  /\ GoTo(w, "scan")
  /\ frame' = [frame EXCEPT ![w] = NoFrame]
  /\ touched' = [touched EXCEPT ![w] = FALSE]
  /\ UNCHANGED <<channel, registered>>

(* ngx_terminate or ngx_quit, seen between two calls of epoll_wait().      *)
WorkerExit(w) ==
  /\ ReaderStep(w, "wait")
  /\ GoTo(w, "exited")
  /\ UNCHANGED <<channel, message_send, message_id_sent, registered, frame, touched>>

WriterNext == Receive \/ Store \/ Advance \/ Notify \/ WriterExit

(* What a worker does of its own accord, once woken.                       *)
Work(w) == \/ ChannelEvent(w) \/ Scan(w) \/ Lookup(w) \/ LoadLength(w)
           \/ SendHead(w) \/ SendBody(w) \/ Resync(w)

Next == \/ WriterNext
        \/ \E w \in Worker : Work(w) \/ ClientEvent(w) \/ WorkerExit(w)

(* A process that is not blocked keeps running: the writer finishes the    *)
(* message it has begun, a worker whose channel is readable returns from   *)
(* epoll_wait().  Messages, clients and exits are up to the environment.   *)
Fairness == /\ WF_vars(Store \/ Advance \/ Notify)
            /\ \A w \in Worker : WF_vars(Work(w))

Spec == Init /\ [][Next]_vars /\ Fairness

-------------------------------------------------------------------------------
(* Properties.                                                             *)

TypeOK ==
  /\ messages \in [Slot -> [Field -> Nat]]
  /\ message_index \in Slot
  /\ message_id \in Nat \ {0}
  /\ stage \in IDLE .. EXITED
  /\ target \in 0 .. W
  /\ channel \in [Worker -> 0 .. ChannelCap]
  /\ pc \in [Worker -> {"wait", "scan", "channel", "length", "head", "body",
                        "resync", "exited"}]
  /\ message_send \in [Worker -> Slot]
  /\ message_id_sent \in [Worker -> Nat]
  /\ registered \in [Worker -> BOOLEAN]
  /\ frame \in [Worker -> [id : Nat, length : Nat, head : Nat, body : Nat]]
  /\ touched \in [Worker -> BOOLEAN]

(* The message the writer's current lap, or the one before it, put in s.   *)
ThisLap(s) == message_id - message_index + s
LastLap(s) == IF ThisLap(s) > N THEN ThisLap(s) - N ELSE 0

(* Every field of every slot is the current lap's behind the writer, the   *)
(* previous lap's ahead of it, and in the writer's own slot the fields     *)
(* already stored are the new message's.                                   *)
RingOrder ==
  \A s \in Slot : \A f \in Field :
    messages[s][f] = IF \/ s < message_index
                        \/ s = message_index /\ stage \in f + 1 .. ADVANCE
                     THEN ThisLap(s) ELSE LastLap(s)

(* A reader's slot is always the one after the slot its last id came from, *)
(* however often the writer has lapped it: Resync loads the id and moves   *)
(* on together, so slot and id never drift apart.                          *)
CursorInStep ==
  \A w \in Worker : (message_id_sent[w] - message_send[w]) % N = 0

(* Without a lock, a message is safe exactly while the writer keeps out of *)
(* the slot: if it did since Scan, the slot holds one message in all its   *)
(* fields, the handler got that message whole, and its length was not 0.   *)
UndisturbedFrameIsWhole ==
  \A w \in Worker : Reading(w) /\ ~touched[w] =>
    /\ \A f \in Field : messages[message_send[w]][f] = frame[w].id
    /\ pc[w] \in {"head", "body"} => frame[w].length = frame[w].id
    /\ pc[w] = "body" => frame[w].head = frame[w].id
    /\ pc[w] = "resync" /\ frame[w].length # 0 =>
         frame[w].length = frame[w].id /\ frame[w].head = frame[w].id
                                      /\ frame[w].body = frame[w].id

(* No worker sleeps on a message: when one waits in epoll_wait() although  *)
(* its next slot holds a new id, its channel is readable or the writer has *)
(* not come to it in ngx_websocket_new_message yet.  A refused command on  *)
(* a full channel loses nothing.                                           *)
NoLostWakeup ==
  \A w \in Worker :
    pc[w] = "wait" /\ messages[message_send[w]][ID] > message_id_sent[w] =>
      \/ channel[w] > 0
      \/ stage \in CHANNEL .. ADVANCE
      \/ stage = NOTIFY /\ target <= w

(* The number of the last message whose id is visible in the ring.         *)
Published == IF stage \in CHANNEL .. ADVANCE THEN message_id ELSE message_id - 1

Log == INSTANCE MessageLog WITH
         published <- Published,
         passed <- message_id_sent,
         stopped <- {w \in Worker : pc[w] = "exited"}

(* The ring implements the log: ids are passed in order, a reader leaves   *)
(* out none unless it is a whole ring behind, and a worker that keeps      *)
(* running passes every message published.                                 *)
ImplementsLog == Log!Spec
===============================================================================
